---- MODULE Spec2Model ----
(***************************************************************************)
(* devops-metrics-go: the source adapters (Bitbucket, GitHub, Jira), their *)
(* callers (the CLI main and the /api/metrics handler) and the metrics     *)
(* calculator, as a state machine.  One step is one HTTP exchange of an    *)
(* adapter with its provider together with everything the adapter does     *)
(* with the response before it issues the next request.                    *)
(*                                                                         *)
(* Spec runs one fetch or one caller; BitbucketSpec one Bitbucket fetch    *)
(* under fairness; ServerSpec several web requests at once; CalcSpec the   *)
(* calculators on collections of their caller's choosing.                  *)
(*                                                                         *)
(* Time is counted in milliseconds.  Bitbucket sends millisecond           *)
(* timestamps which the adapter cuts to whole seconds; GitHub timestamps   *)
(* are kept as they are parsed.                                            *)
(***************************************************************************)
EXTENDS Integers, Sequences, FiniteSets, TLC

\* ------------------------------------------------------------------ bounds
\* limit / per_page / maxResults: 100 in the code, scaled down
PageSize == 2
\* milliseconds per second: 1000 in the code, scaled down
MsPerSec == 2
\* how far the wall clock may advance while a fetch runs
MaxDrift == 1
\* how many exchanges of one run may fail
MaxFaults == 2

\* the longest provider listing: three pages, the last one short
MaxLen == 2 * PageSize + 1
\* config.DaysToAnalyze as a duration
Window == 2 * MsPerSec

Min(a, b) == IF a < b THEN a ELSE b
Max(a, b) == IF a < b THEN b ELSE a

\* --------------------------------------------------------------- HTTP layer
StatusOK == 200
StatusTooManyRequests == 429
StatusInternalServerError == 500

\* what the provider may answer to one request: status 0 stands for a
\* transport failure (client.Do returns an error), body "json" for a body of
\* the expected shape, "garbage" for one json.Unmarshal rejects
Responses ==
    {[status |-> StatusOK, body |-> "json"], [status |-> StatusOK, body |-> "garbage"],
     [status |-> 0, body |-> ""], [status |-> StatusTooManyRequests, body |-> "e1"]}
    \cup [status : {StatusInternalServerError}, body : {"e1", "e2"}]

NoErr == [kind |-> "nil", op |-> "", status |-> 0, body |-> ""]

\* makeRequest: client.Do once; any status but 200 is an error that carries
\* the status and the body
makeRequest(resp) ==
    IF resp.status = 0
    THEN [ok |-> FALSE,
          err |-> [kind |-> "transport", op |-> "", status |-> 0, body |-> ""]]
    ELSE IF resp.status # StatusOK
    THEN [ok |-> FALSE,
          err |-> [kind |-> "API request failed with status", op |-> "",
                   status |-> resp.status, body |-> resp.body]]
    ELSE [ok |-> TRUE, err |-> NoErr]

\* fmt.Errorf("<op>: %w", err)
Wrap(op, err) == [err EXCEPT !.op = op]
ParseErr(op) == [kind |-> "parse", op |-> op, status |-> StatusOK, body |-> "garbage"]

\* ------------------------------------------------------------------- time
\* time.Unix(ms/1000, 0), as milliseconds
UnixSec(ms) == (ms \div MsPerSec) * MsPerSec
\* time.Now().AddDate(0, 0, -DaysToAnalyze)
SinceAt(t) == t - Window

None == -1

VARIABLES
    entry,      \* the operation invoked: one adapter's fetch, or a caller
    cfg,        \* the providers the configuration names
    provider,   \* what each provider holds: its listings
    now0,       \* the wall clock when the operation was invoked
    now,        \* the wall clock
    pc,         \* "start", "fetch" (an adapter runs), "return" (it has returned
                \* to a caller), "done"
    src,        \* the adapter that is running or has just returned
    since,      \* the running fetch's local `since`
    start,      \* the running fetch's cursor: start, page or startAt
    branch,     \* GitHub FetchCommits: index of the branch being fetched
    response,       \* the parsed listing response the fetch is iterating over
    idx,        \* position in response.values of the record being enriched, or 0
    acc,        \* the running fetch's local result slice
    ret,        \* per source: whether it ran, and what it returned
    reqLog,     \* the requests the providers have answered, in order
    commits, prs, stories,  \* the caller's collections
    report,     \* the caller's TeamMetrics, once computed
    previous,   \* the TeamMetrics computed by the call before, if there was one
    rid,        \* the web server: the request whose handler is running
    parked,     \* per request: the local variables of its handler while
                \* another request's handler runs
    responses   \* per request: what its handler has written to the client

fetchVars == <<since, start, branch, response, idx, acc>>
callerVars == <<commits, prs, stories, report, previous>>
serverVars == <<rid, parked, responses>>
envVars == <<entry, cfg, provider, now0>>
vars == <<entry, cfg, provider, now0, now, pc, src, since, start, branch, response, idx,
          acc, ret, reqLog, commits, prs, stories, report, previous, rid, parked,
          responses>>

Callers == {"main", "getAllMetrics", "getAllMetrics (Bitbucket, Jira)"}

\* the web server's handlers of one provider
Handlers == {"getBitbucketMetrics"}

Sources == {"bbCommits", "bbPRs", "ghCommits", "ghPRs", "jiraIssues"}

NotRun == [ran |-> FALSE, recs |-> <<>>, err |-> NoErr]
Returned(recs, err) == [ran |-> TRUE, recs |-> recs, err |-> err]

Req(s, kind, arg, r) ==
    [src |-> s, kind |-> kind, arg |-> arg, status |-> r.status, body |-> r.body]

Failed(r) == r.status # StatusOK \/ r.body # "json"

\* the failed exchanges so far
Faults == Cardinality({i \in 1..Len(reqLog) : Failed(reqLog[i])})

\* what the provider may answer now: failures only while the budget lasts.
\* A caller tells a failed fetch from a successful one and no more, so the
\* runs of the callers see one kind of failure
Answers ==
    {r \in Responses :
        /\ Failed(r) => Faults < MaxFaults
        /\ entry \in Callers \cup Handlers
           => r.status \in {StatusOK, StatusInternalServerError} /\ r.body \in {"json", "e1"}}

\* what it may answer to a request whose failure the adapter absorbs (the
\* diff or the reviews of one pull request, a page of one branch's commits):
\* the adapters tell these failures apart no further than failed or unparsable
AbsorbedAnswers ==
    {r \in Answers : r.status \in {StatusOK, StatusInternalServerError} /\ r.body # "e2"}

\* the clock after an exchange begun at time t.  Only Bitbucket's FetchPRs
\* reads the clock again after it has begun, so only its exchanges are given
\* a duration
ClockAfter(t) == {u \in t..(t + 1) : u <= now0 + MaxDrift}

EmptyPage == [values |-> <<>>, isLastPage |-> TRUE, nextPageStart |-> 0]

\* where an adapter's cursor starts: start := 0, startAt := 0, page := 1
FirstCursor(s) == IF s = "ghPRs" THEN 1 ELSE 0

\* an adapter returns (recs, err) to its caller
Finish(recs, err) ==
    /\ ret' = [ret EXCEPT ![src] = Returned(recs, err)]
    /\ pc' = IF entry \in Callers \cup Handlers THEN "return" ELSE "done"

\* return nil, err: a failed listing request ends the fetch with the error
\* and no records
ListingError_KeepsPartial(err) == Finish(acc, err)

ListingError(err) == Finish(<<>>, err)

\* the timestamps a listing may hold: just before, at and just after the
\* window's boundary at the time of the call
Times(t0) == {SinceAt(t0) - 1, SinceAt(t0), SinceAt(t0) + 1}

\* the timestamps of a listing, in the provider's order: any order over up to
\* two pages, newest first over up to three
TimeSeqs(t0) ==
    UNION {{ts \in [1..n -> Times(t0)] :
               n > PageSize + 1 => \A i \in 1..(n - 1) : ts[i] >= ts[i + 1]}
              : n \in 0..MaxLen}

AuthorOf(i) == IF i % 2 = 1 THEN "alice" ELSE "bob"

\* ----------------------------------------------------- Bitbucket: commits
BBCommitListings(t0) ==
    {[i \in 1..Len(ts) |-> [id |-> i, author |-> AuthorOf(i), authorTimestamp |-> ts[i]]]
        : ts \in TimeSeqs(t0)}

\* a page of a Bitbucket listing: values, isLastPage, nextPageStart
BitbucketPage(list, st) ==
    [values |-> SubSeq(list, st + 1, Min(st + PageSize, Len(list))),
     isLastPage |-> st + PageSize >= Len(list),
     nextPageStart |-> Min(st + PageSize, Len(list))]

BBCommitDate(c) == UnixSec(c.authorTimestamp)

BBCommit(c) ==
    [Hash |-> c.id, Author |-> c.author, Date |-> BBCommitDate(c),
     LinesAdded |-> 0, LinesDeleted |-> 0]

\* the index of the first value that is before s by its date, or 0
FirstBefore(dates, s) ==
    LET old == {i \in 1..Len(dates) : dates[i] < s}
    IN  IF old = {} THEN 0 ELSE CHOOSE i \in old : \A j \in old : i <= j

\* the values of a page the loop appends before it meets one before s
TakenUntilBefore(dates, s) ==
    LET k == FirstBefore(dates, s)
    IN  IF k = 0 THEN Len(dates) ELSE k - 1

\* whether FetchCommits returns after this page: it met a commit before
\* `since` (return inside the loop) or the page is the last
BBCommitsStop_OnLastPageOnly(k, page) == page.isLastPage

BBCommitsStop(k, page) == k # 0 \/ page.isLastPage

BitbucketFetchCommits ==
    /\ pc = "fetch" /\ src = "bbCommits"
    /\ \E a \in Answers :
        LET r == makeRequest(a)
            page == BitbucketPage(provider.bbCommits, start)
            dates == [i \in 1..Len(page.values) |-> BBCommitDate(page.values[i])]
            k == FirstBefore(dates, since)
            taken == [i \in 1..TakenUntilBefore(dates, since) |-> BBCommit(page.values[i])]
        IN  /\ reqLog' = Append(reqLog, Req(src, "list", start, a))
            /\ IF ~r.ok
               THEN ListingError(Wrap("error fetching commits", r.err))
                    /\ UNCHANGED <<start, acc>>
               ELSE IF a.body # "json"
               THEN ListingError(ParseErr("error parsing commits response"))
                    /\ UNCHANGED <<start, acc>>
               ELSE IF BBCommitsStop(k, page)
               THEN Finish(acc \o taken, NoErr) /\ UNCHANGED <<start, acc>>
               ELSE /\ acc' = acc \o taken
                    /\ start' = page.nextPageStart
                    /\ UNCHANGED <<ret, pc>>
    /\ UNCHANGED <<envVars, serverVars, now, src, since, branch, response, idx, callerVars>>

\* ------------------------------------------------ Bitbucket: pull requests
\* the rest of a pull request, by its position in the listing; the state is
\* whatever string the provider sends
BBStateOf(i) == <<"OPEN", "MERGED", "DECLINED", "SUPERSEDED", "MERGED">>[((i - 1) % 5) + 1]
BBReviewersOf(i) ==
    << <<>>,
       <<[name |-> "carol", approved |-> TRUE]>>,
       <<[name |-> "carol", approved |-> FALSE], [name |-> "dave", approved |-> TRUE]>>,
       <<[name |-> "carol", approved |-> FALSE]>>,
       <<[name |-> "dave", approved |-> TRUE], [name |-> "dave", approved |-> TRUE]>> >>[((i - 1) % 5) + 1]
\* the segments of the pull request's diff: type and number of lines
BBDiffOf(i) ==
    <<[type |-> "ADDED", lines |-> i], [type |-> "CONTEXT", lines |-> 2],
      [type |-> "REMOVED", lines |-> 1]>>

BBPullRequest(i, created) ==
    [id |-> i, state |-> BBStateOf(i), createdDate |-> created,
     updatedDate |-> created + 1,
     closedDate |-> IF BBStateOf(i) = "OPEN" THEN 0 ELSE created + MsPerSec,
     author |-> AuthorOf(i), reviewers |-> BBReviewersOf(i), diff |-> BBDiffOf(i)]

BBPRListings(t0) ==
    {[i \in 1..Len(ts) |-> BBPullRequest(i, ts[i])] : ts \in TimeSeqs(t0)}

RECURSIVE SumLines(_)
SumLines(segments) ==
    IF segments = <<>> THEN 0
    ELSE (IF Head(segments).type \in {"ADDED", "REMOVED"} THEN Head(segments).lines ELSE 0)
         + SumLines(Tail(segments))

\* linesChanged: the ADDED and REMOVED lines of the diff, 0 when the diff
\* request fails or its body does not parse
BBLinesChanged(pr, a) ==
    IF makeRequest(a).ok /\ a.body = "json" THEN SumLines(pr.diff) ELSE 0

BBFirstReviewAt(pr) ==
    IF \E j \in 1..Len(pr.reviewers) : pr.reviewers[j].approved
    THEN UnixSec(pr.updatedDate) ELSE None

BBReviewers(pr) == [j \in 1..Len(pr.reviewers) |-> pr.reviewers[j].name]

BBPR(pr, linesChanged) ==
    LET closed == IF pr.closedDate > 0 THEN UnixSec(pr.closedDate) ELSE None
    IN  [ID |-> <<"PR-", pr.id>>, Author |-> pr.author,
         CreatedAt |-> UnixSec(pr.createdDate),
         MergedAt |-> IF pr.state = "MERGED" THEN closed ELSE None,
         ClosedAt |-> IF pr.state = "MERGED" THEN None ELSE closed,
         FirstReviewAt |-> BBFirstReviewAt(pr),
         LinesChanged |-> linesChanged,
         Status |-> pr.state,
         Reviewers |-> BBReviewers(pr)]

\* the next value after position i the loop does not skip: the first one
\* whose createdAt is not before `since`, which is read off the clock anew
\* for every value; 0 when the page holds no more
BBNextInWindow_NoWindow(values, i, t) == IF i < Len(values) THEN i + 1 ELSE 0

BBNextInWindow(values, i, t) ==
    LET ok == {j \in (i + 1)..Len(values) : ~(UnixSec(values[j].createdDate) < SinceAt(t))}
    IN  IF ok = {} THEN 0 ELSE CHOOSE j \in ok : \A m \in ok : j <= m

\* after the values of a page: stop on the last page, else move the cursor
BBAfterPage_SkipsOne(page, recs) ==
    IF page.isLastPage
    THEN Finish(recs, NoErr) /\ UNCHANGED <<start, acc>>
    ELSE /\ acc' = recs
         /\ start' = page.nextPageStart + 1
         /\ UNCHANGED <<ret, pc>>

BBAfterPage(page, recs) ==
    IF page.isLastPage
    THEN Finish(recs, NoErr) /\ UNCHANGED <<start, acc>>
    ELSE /\ acc' = recs
         /\ start' = page.nextPageStart
         /\ UNCHANGED <<ret, pc>>

\* the listing request of FetchPRs and the loop up to the first diff request
BitbucketFetchPRs ==
    /\ pc = "fetch" /\ src = "bbPRs" /\ idx = 0
    /\ \E a \in Answers, t \in ClockAfter(now) :
        LET r == makeRequest(a)
            page == BitbucketPage(provider.bbPRs, start)
            j == BBNextInWindow(page.values, 0, t)
        IN  /\ now' = t
            /\ reqLog' = Append(reqLog, Req(src, "list", start, a))
            /\ IF ~r.ok
               THEN ListingError(Wrap("error fetching PRs", r.err))
                    /\ UNCHANGED <<start, acc, response, idx>>
               ELSE IF a.body # "json"
               THEN ListingError(ParseErr("error parsing PRs response"))
                    /\ UNCHANGED <<start, acc, response, idx>>
               ELSE IF j = 0
               THEN BBAfterPage(page, acc) /\ UNCHANGED <<response, idx>>
               ELSE /\ response' = page
                    /\ idx' = j
                    /\ UNCHANGED <<start, acc, ret, pc>>
    /\ UNCHANGED <<envVars, serverVars, src, since, branch, callerVars>>

\* the diff request for one pull request, the record appended for it, and
\* the loop up to the next diff request or the next listing request
BitbucketFetchDiff ==
    /\ pc = "fetch" /\ src = "bbPRs" /\ idx > 0
    /\ \E a \in AbsorbedAnswers, t \in ClockAfter(now) :
        LET pr == response.values[idx]
            recs == Append(acc, BBPR(pr, BBLinesChanged(pr, a)))
            j == BBNextInWindow(response.values, idx, t)
        IN  /\ now' = t
            /\ reqLog' = Append(reqLog, Req(src, "diff", pr.id, a))
            /\ IF j = 0
               THEN BBAfterPage(response, recs) /\ idx' = 0 /\ response' = EmptyPage
               ELSE /\ acc' = recs
                    /\ idx' = j
                    /\ UNCHANGED <<start, response, ret, pc>>
    /\ UNCHANGED <<envVars, serverVars, src, since, branch, callerVars>>

\* --------------------------------------------------------- GitHub: commits
BranchNames == <<"main", "dev">>

\* a page of a GitHub or Jira listing: the records from offset `from` on, at
\* most PageSize of them
OffsetPage(list, from) == SubSeq(list, from + 1, Min(from + PageSize, Len(list)))

\* the commit at position i of a branch's listing; a commit reachable from
\* two branches stands at the same position of both, with the same sha and
\* date; every other commit has no GitHub login
GHCommitOf(i, date) ==
    [sha |-> <<i, date>>, login |-> IF i % 2 = 1 THEN "alice" ELSE "",
     name |-> IF i % 2 = 1 THEN "Alice A" ELSE "Bob B", date |-> date]

\* up to two branches of up to two pages each, PageSize + 2 commits in all
GHBranchListings(t0) ==
    LET seqs == {ts \in TimeSeqs(t0) : Len(ts) <= PageSize + 1}
        commitsOf(ts) == [i \in 1..Len(ts) |-> GHCommitOf(i, ts[i])]
    IN  {<<>>}
        \cup {<<[name |-> BranchNames[1], commits |-> commitsOf(ts)]>> : ts \in seqs}
        \cup {<<[name |-> BranchNames[1], commits |-> commitsOf(p[1])],
                [name |-> BranchNames[2], commits |-> commitsOf(p[2])]>>
                 : p \in {q \in seqs \X seqs : Len(q[1]) + Len(q[2]) <= PageSize + 2}}

GHCommit(c) ==
    [Hash |-> c.sha,
     Author |-> IF c.login = "" /\ c.name # "" THEN c.name ELSE c.login,
     Date |-> c.date, LinesAdded |-> 0, LinesDeleted |-> 0]

\* the request for the branches
GitHubFetchBranches ==
    /\ pc = "fetch" /\ src = "ghCommits" /\ branch = 0
    /\ \E a \in Answers :
        LET r == makeRequest(a)
            branches == [b \in 1..Len(provider.ghBranches) |-> provider.ghBranches[b].name]
        IN  /\ reqLog' = Append(reqLog, Req(src, "branches", 0, a))
            /\ IF ~r.ok
               THEN ListingError(Wrap("error fetching branches", r.err))
                    /\ UNCHANGED <<branch, start, response>>
               ELSE IF a.body # "json"
               THEN ListingError(ParseErr("error parsing branches"))
                    /\ UNCHANGED <<branch, start, response>>
               ELSE IF branches = <<>>
               THEN Finish(acc, NoErr) /\ UNCHANGED <<branch, start, response>>
               ELSE /\ response' = [EmptyPage EXCEPT !.values = branches]
                    /\ branch' = 1
                    /\ start' = 1
                    /\ UNCHANGED <<ret, pc>>
    /\ UNCHANGED <<envVars, serverVars, now, src, since, idx, acc, callerVars>>

\* after the pages of a branch: the next branch, or return
GHNextBranch(recs) ==
    IF branch = Len(response.values)
    THEN Finish(recs, NoErr) /\ UNCHANGED <<branch, start, acc>>
    ELSE /\ acc' = recs
         /\ branch' = branch + 1
         /\ start' = 1
         /\ UNCHANGED <<ret, pc>>

\* a commit page that fails or does not parse: break, on to the next branch
GHPageFailed_Aborts(recs) ==
    Finish(<<>>, ParseErr("error fetching commits")) /\ UNCHANGED <<branch, start, acc>>

GHPageFailed(recs) == GHNextBranch(recs)

\* the request for one page of one branch's commits
GitHubFetchCommits ==
    /\ pc = "fetch" /\ src = "ghCommits" /\ branch > 0
    /\ \E a \in AbsorbedAnswers :
        LET r == makeRequest(a)
            commitList == OffsetPage(provider.ghBranches[branch].commits,
                                     (start - 1) * PageSize)
            dates == [i \in 1..Len(commitList) |-> commitList[i].date]
            taken == [i \in 1..TakenUntilBefore(dates, since) |-> GHCommit(commitList[i])]
        IN  /\ reqLog' = Append(reqLog, Req(src, response.values[branch], start, a))
            /\ IF ~r.ok \/ a.body # "json"
               THEN GHPageFailed(acc)
               ELSE IF Len(commitList) < PageSize
               THEN GHNextBranch(acc \o taken)
               ELSE /\ acc' = acc \o taken
                    /\ start' = start + 1
                    /\ UNCHANGED <<branch, ret, pc>>
    /\ UNCHANGED <<envVars, serverVars, now, src, since, response, idx, callerVars>>

\* --------------------------------------------------- GitHub: pull requests
\* the reviews of a pull request, in the order the provider lists them: the
\* fourth lists a later review first
GHReviewsOf(i, created) ==
    << <<[login |-> "carol", state |-> "COMMENTED", submitted_at |-> created + 1],
         [login |-> "dave", state |-> "APPROVED", submitted_at |-> created + 2]>>,
       <<[login |-> "carol", state |-> "APPROVED", submitted_at |-> created + 1]>>,
       <<>>,
       <<[login |-> "carol", state |-> "APPROVED", submitted_at |-> created + 2],
         [login |-> "carol", state |-> "CHANGES_REQUESTED", submitted_at |-> created + 1],
         [login |-> "", state |-> "COMMENTED", submitted_at |-> created + 2]>>,
       <<[login |-> "dave", state |-> "COMMENTED", submitted_at |-> created + 1]>> >>[((i - 1) % 5) + 1]

\* the rest of a pull request, by its position in the listing
GHPullRequest(i, created) ==
    LET k == ((i - 1) % 5) + 1
    IN  [number |-> i, login |-> AuthorOf(i), created_at |-> created,
         state |-> <<"open", "closed", "closed", "open", "closed">>[k],
         merged_at |-> <<None, created + 2, None, None, created + 1>>[k],
         closed_at |-> <<None, created + 2, created + 1, None, created + 1>>[k],
         additions |-> i, deletions |-> 1,
         changed_files |-> <<2, 1, 0, 3, 1>>[k],
         reviews |-> GHReviewsOf(i, created)]

GHPRListings(t0) ==
    {[i \in 1..Len(ts) |-> GHPullRequest(i, ts[i])] : ts \in TimeSeqs(t0)}

\* the reviews the adapter holds after the reviews request: none when the
\* request fails or the body does not parse
GHReviews(pr, a) ==
    IF makeRequest(a).ok /\ a.body = "json" THEN pr.reviews ELSE <<>>

GHFirstReviewAt(reviews) ==
    LET dec == {j \in 1..Len(reviews) : reviews[j].state \in {"APPROVED", "CHANGES_REQUESTED"}}
    IN  IF dec = {} THEN None
        ELSE reviews[CHOOSE j \in dec : \A m \in dec : j <= m].submitted_at

RECURSIVE extractReviewers(_)
extractReviewers(reviews) ==
    IF reviews = <<>> THEN <<>>
    ELSE LET before == extractReviewers(SubSeq(reviews, 1, Len(reviews) - 1))
             login == reviews[Len(reviews)].login
         IN  IF login # "" /\ ~(\E j \in 1..Len(before) : before[j] = login)
             THEN Append(before, login) ELSE before

GHStatus(pr) ==
    IF pr.merged_at # None THEN "MERGED"
    ELSE IF pr.state = "closed" THEN "CLOSED" ELSE "OPEN"

GHPR(pr, reviews) ==
    [ID |-> <<"PR-", pr.number>>, Author |-> pr.login, CreatedAt |-> pr.created_at,
     MergedAt |-> pr.merged_at, ClosedAt |-> pr.closed_at,
     FirstReviewAt |-> GHFirstReviewAt(reviews),
     LinesChanged |-> pr.additions + pr.deletions,
     Status |-> GHStatus(pr),
     Reviewers |-> extractReviewers(reviews)]

\* the records the loop appends for one pull request: none when the listing
\* gave it no changed files
GHEmit(pr, reviews) == IF pr.changed_files > 0 THEN <<GHPR(pr, reviews)>> ELSE <<>>

\* whether the loop over the page goes on to the value at position i
GHLoopReaches(values, i, s) ==
    i <= Len(values) /\ ~(values[i].created_at < s)

\* after the values of a page: stop after a short page, else the next page
GHAfterPage(n, recs) ==
    IF n < PageSize
    THEN Finish(recs, NoErr) /\ UNCHANGED <<start, acc>>
    ELSE /\ acc' = recs
         /\ start' = start + 1
         /\ UNCHANGED <<ret, pc>>

\* the listing request of FetchPRs and the loop up to the first reviews request
GitHubFetchPRs ==
    /\ pc = "fetch" /\ src = "ghPRs" /\ idx = 0
    /\ \E a \in Answers :
        LET r == makeRequest(a)
            prList == OffsetPage(provider.ghPRs, (start - 1) * PageSize)
        IN  /\ reqLog' = Append(reqLog, Req(src, "list", start, a))
            /\ IF ~r.ok
               THEN ListingError(Wrap("error fetching PRs", r.err))
                    /\ UNCHANGED <<start, acc, response, idx>>
               ELSE IF a.body # "json"
               THEN ListingError(ParseErr("error parsing PRs"))
                    /\ UNCHANGED <<start, acc, response, idx>>
               ELSE IF ~GHLoopReaches(prList, 1, since)
               THEN GHAfterPage(Len(prList), acc) /\ UNCHANGED <<response, idx>>
               ELSE /\ response' = [EmptyPage EXCEPT !.values = prList]
                    /\ idx' = 1
                    /\ UNCHANGED <<start, acc, ret, pc>>
    /\ UNCHANGED <<envVars, serverVars, now, src, since, branch, callerVars>>

\* the reviews request for one pull request, the record appended for it, and
\* the loop up to the next reviews request or the next listing request
GitHubFetchReviews ==
    /\ pc = "fetch" /\ src = "ghPRs" /\ idx > 0
    /\ \E a \in AbsorbedAnswers :
        LET pr == response.values[idx]
            recs == acc \o GHEmit(pr, GHReviews(pr, a))
        IN  /\ reqLog' = Append(reqLog, Req(src, "reviews", pr.number, a))
            /\ IF GHLoopReaches(response.values, idx + 1, since)
               THEN /\ acc' = recs
                    /\ idx' = idx + 1
                    /\ UNCHANGED <<start, response, ret, pc>>
               ELSE GHAfterPage(Len(response.values), recs)
                    /\ idx' = 0 /\ response' = EmptyPage
    /\ UNCHANGED <<envVars, serverVars, now, src, since, branch, callerVars>>

\* ------------------------------------------------------------ Jira: issues
\* a timestamp as the provider writes it: kind "rfc3339" parses, "null" is an
\* absent field, "" an empty string
TimeString(t) == [kind |-> "rfc3339", t |-> t]
NullString == [kind |-> "null", t |-> 0]
EmptyString == [kind |-> "", t |-> 0]

\* time.Time{}: what time.Parse leaves behind when it fails
ZeroTime == 0

\* t, _ := time.Parse(time.RFC3339, s)
ParseRFC3339(s) == IF s.kind = "rfc3339" THEN s.t ELSE ZeroTime

\* strings.Contains(strings.ToLower(s), "progress") || ... "development"
MentionsProgress(s) == s \in {"In Progress", "IN PROGRESS", "In Development"}

SecondsPerHour == 3600

\* the issue at position i of the search result, created at `created`
JiraIssue(i, created) ==
    LET k == ((i - 1) % 5) + 1
        hist(t, field, to) == [created |-> TimeString(t),
                               items |-> <<[field |-> field, toString |-> to]>>]
    IN  [key |-> i,
         status |-> <<"In Progress", "Done", "Resolved", "To Do", "Completed">>[k],
         assignee |-> << <<[displayName |-> "Alice A", name |-> "alice"]>>, <<>>,
                         <<[displayName |-> "Bob B", name |-> "bob"]>>, <<>>,
                         <<[displayName |-> "Alice A", name |-> "alice"]>> >>[k],
         created |-> TimeString(created),
         resolutiondate |-> <<NullString, TimeString(created + 3), EmptyString,
                              NullString, TimeString(created + 2)>>[k],
         storyPoints |-> <<5, 0, 0, 3, 0>>[k],
         timeEstimate |-> <<0, 3 * SecondsPerHour, 0, SecondsPerHour, 0>>[k],
         timeSpent |-> <<2 * SecondsPerHour, 3 * SecondsPerHour, 0, 0, SecondsPerHour>>[k],
         changelog |-> << <<hist(created + 1, "status", "In Progress")>>,
                          <<hist(created + 2, "status", "In Development"),
                            hist(created + 1, "status", "IN PROGRESS"),
                            hist(created + 3, "status", "Done")>>,
                          <<>>,
                          <<hist(created + 1, "assignee", "In Progress")>>,
                          <<hist(created + 1, "status", "In Review")>> >>[k]]

JiraListings(t0) ==
    {[i \in 1..n |-> JiraIssue(i, SinceAt(t0) + 1)] : n \in 0..MaxLen}

\* a ratio n/d of integers, d > 0, in lowest terms
RECURSIVE GCD(_, _)
GCD(a, b) == IF b = 0 THEN a ELSE GCD(b, a % b)
Abs(x) == IF x < 0 THEN -x ELSE x
Rat(n, d) ==
    LET g == GCD(Abs(n), Abs(d))
        sgn == IF d < 0 THEN -1 ELSE 1
    IN  [n |-> sgn * (n \div g), d |-> sgn * (d \div g)]
Zero == [n |-> 0, d |-> 1]

\* startedAt: the earliest status change to a value that mentions progress
JiraStartedAt(issue) ==
    LET hs == issue.changelog
        hits == {j \in 1..Len(hs) :
                    \E m \in 1..Len(hs[j].items) :
                        /\ hs[j].items[m].field = "status"
                        /\ MentionsProgress(hs[j].items[m].toString)}
    IN  IF hits = {} THEN None
        ELSE LET j == CHOOSE j \in hits :
                        \A m \in hits : ParseRFC3339(hs[j].created) <= ParseRFC3339(hs[m].created)
             IN  ParseRFC3339(hs[j].created)

JiraStory(issue, isCloud) ==
    [Key |-> issue.key,
     Assignee |-> IF issue.assignee = <<>> THEN "Unassigned"
                  ELSE IF isCloud THEN issue.assignee[1].displayName
                  ELSE issue.assignee[1].name,
     CreatedAt |-> ParseRFC3339(issue.created),
     StartedAt |-> JiraStartedAt(issue),
     CompletedAt |-> IF issue.resolutiondate.kind \notin {"null", ""}
                     THEN ParseRFC3339(issue.resolutiondate) ELSE None,
     Estimate |-> IF issue.storyPoints = 0 /\ issue.timeEstimate > 0
                  THEN Rat(issue.timeEstimate, SecondsPerHour)
                  ELSE Rat(issue.storyPoints, 1),
     ActualEffort |-> IF issue.timeSpent > 0 THEN Rat(issue.timeSpent, SecondsPerHour)
                      ELSE Zero,
     Status |-> issue.status]

\* startAt += maxResults
JiraNextStartAt_Skips(startAt) == startAt + PageSize + 1

JiraNextStartAt(startAt) == startAt + PageSize

\* if len(response.Issues) < maxResults { break }
JiraLastPage_Empty(issues) == Len(issues) = 0

JiraLastPage(issues) == Len(issues) < PageSize

\* one search request and the issues of its page
JiraFetchIssues ==
    /\ pc = "fetch" /\ src = "jiraIssues"
    /\ \E a \in Answers :
        LET r == makeRequest(a)
            issues == OffsetPage(provider.jiraIssues, start)
            recs == acc \o [i \in 1..Len(issues) |-> JiraStory(issues[i], cfg.isJiraCloud)]
        IN  /\ reqLog' = Append(reqLog, Req(src, "search", start, a))
            /\ IF ~r.ok
               THEN ListingError(Wrap("error fetching Jira issues", r.err))
                    /\ UNCHANGED <<start, acc>>
               ELSE IF a.body # "json"
               THEN ListingError(ParseErr("error parsing Jira response"))
                    /\ UNCHANGED <<start, acc>>
               ELSE IF JiraLastPage(issues)
               THEN Finish(recs, NoErr) /\ UNCHANGED <<start, acc>>
               ELSE /\ acc' = recs
                    /\ start' = JiraNextStartAt(start)
                    /\ UNCHANGED <<ret, pc>>
    /\ UNCHANGED <<envVars, serverVars, now, src, since, branch, response, idx, callerVars>>

\* ----------------------------------------------------------------- metrics
\* float64 values are ratios; durations are kept in ticks until they are
\* divided into hours, days or weeks
HoursPerDay == 24
DaysPerWeek == 7
TicksPerHour == SecondsPerHour * MsPerSec
TicksPerDay == HoursPerDay * TicksPerHour
TicksPerWeek == DaysPerWeek * TicksPerDay

\* the four operations on ratios, common factors taken out before
\* multiplying
RatAdd(a, b) ==
    LET g == GCD(a.d, b.d)
    IN  Rat(a.n * (b.d \div g) + b.n * (a.d \div g), (a.d \div g) * b.d)
RatSub(a, b) == RatAdd(a, [b EXCEPT !.n = -b.n])
RatMul(a, b) ==
    LET g == GCD(Abs(a.n), b.d)
        h == GCD(Abs(b.n), a.d)
    IN  Rat((a.n \div g) * (b.n \div h), (a.d \div h) * (b.d \div g))
RatDiv(a, b) ==
    RatMul(a, IF b.n < 0 THEN [n |-> -b.d, d |-> -b.n] ELSE [n |-> b.d, d |-> b.n])

abs(x) == IF x.n < 0 THEN [x EXCEPT !.n = -x.n] ELSE x

RECURSIVE Sum(_)
Sum(ns) == IF ns = <<>> THEN 0 ELSE Head(ns) + Sum(Tail(ns))

\* the significant bits a float64 keeps (53 in Go, scaled down)
MantissaBits == 8

RECURSIVE Pow2(_)
Pow2(k) == IF k = 0 THEN 1 ELSE 2 * Pow2(k - 1)

\* the integers of MantissaBits bits begin at MinMantissa and end before
\* MaxMantissa
MinMantissa == Pow2(MantissaBits - 1)
MaxMantissa == Pow2(MantissaBits)

\* the float nearest to n/d * un/ud, for n/d > 0: n/d is halved or doubled
\* until it lies between MinMantissa and MaxMantissa and then
\* rounded to an integer, a tie going to the even one
RECURSIVE Nearest(_, _, _, _)
Nearest(n, d, un, ud) ==
    IF n \div d >= MaxMantissa
    THEN IF n % 2 = 0 THEN Nearest(n \div 2, d, 2 * un, ud)
         ELSE Nearest(n, 2 * d, 2 * un, ud)
    ELSE IF n \div d < MinMantissa
    THEN IF d % 2 = 0 THEN Nearest(n, d \div 2, un, 2 * ud)
         ELSE Nearest(2 * n, d, un, 2 * ud)
    ELSE LET q == n \div d
             r == n % d
             m == IF 2 * r > d \/ (2 * r = d /\ q % 2 = 1) THEN q + 1 ELSE q
         IN  Rat(m * un, ud)

\* the result of a float64 operation whose exact value is x
Float64(x) ==
    IF x.n = 0 THEN Zero
    ELSE IF x.n < 0 THEN [Nearest(-x.n, x.d, 1, 1) EXCEPT !.n = -@]
    ELSE Nearest(x.n, x.d, 1, 1)

\* the float64 operations +, -, * and /, and float64(n) of an int
FAdd(a, b) == Float64(RatAdd(a, b))
FSub(a, b) == Float64(RatSub(a, b))
FMul(a, b) == Float64(RatMul(a, b))
FDiv(a, b) == Float64(RatDiv(a, b))
ToFloat(n) == Float64(Rat(n, 1))

\* total += x for each x of a sequence, in its order, total being a float64
RECURSIVE FSum(_)
FSum(xs) ==
    IF xs = <<>> THEN Zero
    ELSE FAdd(FSum(SubSeq(xs, 1, Len(xs) - 1)), xs[Len(xs)])

\* d.Hours() of a time difference d: the whole hours plus the rest as a
\* fraction of an hour; and d.Hours() / 24
Hours(ticks) ==
    LET hour == Abs(ticks) \div TicksPerHour
        rest == Abs(ticks) % TicksPerHour
        hours == FAdd(ToFloat(hour), Float64(Rat(rest, TicksPerHour)))
    IN  IF ticks < 0 THEN [hours EXCEPT !.n = -@] ELSE hours
Days(ticks) == FDiv(Hours(ticks), Rat(HoursPerDay, 1))

\* a Go map: nil before make(), then its entries
NilMap == [isNil |-> TRUE, entries |-> <<>>]
MakeMap == [isNil |-> FALSE, entries |-> <<>>]

\* map[string]int filled by m[key]++ for every key of a sequence of keys
CountBy_Presence(keys) ==
    [MakeMap EXCEPT !.entries = [k \in {keys[i] : i \in 1..Len(keys)} |-> 1]]

CountBy(keys) ==
    [MakeMap EXCEPT !.entries =
        [k \in {keys[i] : i \in 1..Len(keys)} |->
            Cardinality({i \in 1..Len(keys) : keys[i] = k})]]

\* t.Format("2006-01-02"): the day of a time, counted from the epoch
DateKey(t) == t \div TicksPerDay

\* t.Weekday().String(); the epoch was a Thursday
Weekday(t) ==
    <<"Sunday", "Monday", "Tuesday", "Wednesday", "Thursday", "Friday",
      "Saturday">>[((DateKey(t) + 4) % DaysPerWeek) + 1]

\* minDate after the loop has seen the first i dates:
\* if i == 0 || d.Before(minDate) { minDate = d }
MinDate_First(dates, i) == IF i = 0 THEN ZeroTime ELSE dates[1]

RECURSIVE MinDate(_, _)
MinDate(dates, i) ==
    IF i = 0 THEN ZeroTime
    ELSE LET before == MinDate(dates, i - 1)
         IN  IF i = 1 \/ dates[i] < before THEN dates[i] ELSE before

\* maxDate likewise: if i == 0 || d.After(maxDate) { maxDate = d }
RECURSIVE MaxDate(_, _)
MaxDate(dates, i) ==
    IF i = 0 THEN ZeroTime
    ELSE LET before == MaxDate(dates, i - 1)
         IN  IF i = 1 \/ dates[i] > before THEN dates[i] ELSE before

\* metrics := CommitMetrics{two made maps}, returned as it is for no commits
NoCommitMetrics_NilMaps ==
    [TotalCommits |-> 0, CommitsPerDay |-> Zero, CommitsByAuthor |-> NilMap,
     CommitsByWeekday |-> NilMap, TotalLinesAdded |-> 0, TotalLinesDeleted |-> 0,
     ActiveDays |-> 0, DateRange |-> <<>>]

NoCommitMetrics ==
    [TotalCommits |-> 0, CommitsPerDay |-> Zero, CommitsByAuthor |-> MakeMap,
     CommitsByWeekday |-> MakeMap, TotalLinesAdded |-> 0, TotalLinesDeleted |-> 0,
     ActiveDays |-> 0, DateRange |-> <<>>]

\* len(activeDaysMap): the distinct days on which there is a commit
ActiveDays_DaysInRange(cs) ==
    LET days == {DateKey(cs[i].Date) : i \in 1..Len(cs)}
    IN  (CHOOSE d \in days : \A e \in days : e <= d)
        - (CHOOSE d \in days : \A e \in days : d <= e) + 1

ActiveDays(cs) == Cardinality({DateKey(cs[i].Date) : i \in 1..Len(cs)})

\* daysDiff := maxDate.Sub(minDate).Hours() / 24; CommitsPerDay is set only
\* if daysDiff > 0
CommitsPerDay(total, minDate, maxDate) ==
    LET daysDiff == Days(maxDate - minDate)
    IN  IF daysDiff.n > 0 THEN FDiv(ToFloat(total), daysDiff) ELSE Zero

CalculateCommitMetrics(cs) ==
    IF Len(cs) = 0 THEN NoCommitMetrics
    ELSE LET dates == [i \in 1..Len(cs) |-> cs[i].Date]
             minDate == MinDate(dates, Len(cs))
             maxDate == MaxDate(dates, Len(cs))
         IN  [TotalCommits |-> Len(cs),
              CommitsPerDay |-> CommitsPerDay(Len(cs), minDate, maxDate),
              CommitsByAuthor |-> CountBy([i \in 1..Len(cs) |-> cs[i].Author]),
              CommitsByWeekday |-> CountBy([i \in 1..Len(cs) |-> Weekday(cs[i].Date)]),
              TotalLinesAdded |-> Sum([i \in 1..Len(cs) |-> cs[i].LinesAdded]),
              TotalLinesDeleted |-> Sum([i \in 1..Len(cs) |-> cs[i].LinesDeleted]),
              ActiveDays |-> ActiveDays(cs),
              DateRange |-> <<DateKey(minDate), DateKey(maxDate)>>]

NoPRMetrics ==
    [TotalPRs |-> 0, MergedPRs |-> 0, ClosedPRs |-> 0, OpenPRs |-> 0,
     AvgCycleTimeHours |-> Zero, AvgReviewTimeHours |-> Zero, AvgPRSize |-> Zero,
     PRsByAuthor |-> MakeMap, MergeSuccessRate |-> Zero]

\* the switch on pr.Status: the requests counted under the statuses S
CountStatus_OpenByDefault(ps, S) ==
    Cardinality({i \in 1..Len(ps) :
        \/ ps[i].Status \in S
        \/ "OPEN" \in S /\ ps[i].Status \notin {"MERGED", "DECLINED", "CLOSED"}})

CountStatus(ps, S) == Cardinality({i \in 1..Len(ps) : ps[i].Status \in S})

\* cycleTimeCount: the requests with MergedAt set
CycleTimeCount_All(ps) == Len(ps)

CycleTimeCount(ps) == Len(SelectSeq(ps, LAMBDA pr : pr.MergedAt # None))

\* reviewTimeCount: the requests with FirstReviewAt set
ReviewTimeCount(ps) == Len(SelectSeq(ps, LAMBDA pr : pr.FirstReviewAt # None))

\* float64(metrics.MergedPRs) / float64(metrics.TotalPRs) * 100
MergeSuccessRate_OverClosed(merged, closed, total) ==
    IF closed = 0 THEN Zero ELSE Rat(merged * 100, closed)

MergeSuccessRate(merged, closed, total) ==
    FMul(FDiv(ToFloat(merged), ToFloat(total)), Rat(100, 1))

CalculatePRMetrics(ps) ==
    IF Len(ps) = 0 THEN NoPRMetrics
    ELSE LET merged == SelectSeq(ps, LAMBDA pr : pr.MergedAt # None)
             reviewed == SelectSeq(ps, LAMBDA pr : pr.FirstReviewAt # None)
             cycleTimes == [i \in 1..Len(merged) |->
                               Hours(merged[i].MergedAt - merged[i].CreatedAt)]
             reviewTimes == [i \in 1..Len(reviewed) |->
                                Hours(reviewed[i].FirstReviewAt - reviewed[i].CreatedAt)]
         IN  [TotalPRs |-> Len(ps),
              MergedPRs |-> CountStatus(ps, {"MERGED"}),
              ClosedPRs |-> CountStatus(ps, {"DECLINED", "CLOSED"}),
              OpenPRs |-> CountStatus(ps, {"OPEN"}),
              AvgCycleTimeHours |->
                  IF CycleTimeCount(ps) > 0
                  THEN FDiv(FSum(cycleTimes), ToFloat(CycleTimeCount(ps)))
                  ELSE Zero,
              AvgReviewTimeHours |->
                  IF ReviewTimeCount(ps) > 0
                  THEN FDiv(FSum(reviewTimes), ToFloat(ReviewTimeCount(ps)))
                  ELSE Zero,
              AvgPRSize |-> FDiv(FSum([i \in 1..Len(ps) |-> ToFloat(ps[i].LinesChanged)]),
                                 ToFloat(Len(ps))),
              PRsByAuthor |-> CountBy([i \in 1..Len(ps) |-> ps[i].Author]),
              MergeSuccessRate |-> MergeSuccessRate(CountStatus(ps, {"MERGED"}),
                                                    CountStatus(ps, {"DECLINED", "CLOSED"}),
                                                    Len(ps))]

\* strings.Contains(strings.ToLower(s.Status), "done") || "completed" || "resolved"
MentionsDone(status) == status \in {"Done", "Completed", "Resolved"}

\* maxDate after the loop over the stories up to position i: set by a story
\* that has a CompletedAt when it is the first story or is after maxDate
RECURSIVE JiraMaxDate_LastCompleted(_, _)
JiraMaxDate_LastCompleted(ss, i) ==
    IF i = 0 THEN ZeroTime
    ELSE IF ss[i].CompletedAt # None THEN ss[i].CompletedAt
    ELSE JiraMaxDate_LastCompleted(ss, i - 1)

RECURSIVE JiraMaxDate(_, _)
JiraMaxDate(ss, i) ==
    IF i = 0 THEN ZeroTime
    ELSE LET before == JiraMaxDate(ss, i - 1)
         IN  IF ss[i].CompletedAt # None /\ (i = 1 \/ ss[i].CompletedAt > before)
             THEN ss[i].CompletedAt ELSE before

NoJiraMetrics ==
    [TotalStories |-> 0, CompletedStories |-> 0, AvgLeadTimeDays |-> Zero,
     AvgCycleTimeDays |-> Zero, Throughput |-> Zero, AvgEstimate |-> Zero,
     AvgActualEffort |-> Zero, EstimateAccuracy |-> Zero, StoriesByAssignee |-> MakeMap]

\* (1 - abs(totalActual-totalEstimate)/totalEstimate) * 100, if totalEstimate > 0
EstimateAccuracy_PerStory(ss) ==
    LET rated == SelectSeq(ss, LAMBDA st : st.Estimate.n > 0)
        ratio(st) == RatSub(Rat(1, 1),
                            RatDiv(abs(RatSub(st.ActualEffort, st.Estimate)), st.Estimate))
    IN  IF Len(rated) = 0 THEN Zero
        ELSE RatMul(RatDiv(FSum([i \in 1..Len(rated) |-> ratio(rated[i])]),
                           Rat(Len(rated), 1)),
                    Rat(100, 1))

EstimateAccuracy(ss) ==
    LET totalEstimate == FSum([i \in 1..Len(ss) |-> ss[i].Estimate])
        totalActual == FSum([i \in 1..Len(ss) |-> ss[i].ActualEffort])
    IN  IF totalEstimate.n > 0
        THEN FMul(FSub(Rat(1, 1),
                       FDiv(abs(FSub(totalActual, totalEstimate)), totalEstimate)),
                  Rat(100, 1))
        ELSE Zero

CalculateJiraMetrics(ss) ==
    IF Len(ss) = 0 THEN NoJiraMetrics
    ELSE LET minDate == MinDate([i \in 1..Len(ss) |-> ss[i].CreatedAt], Len(ss))
             maxDate == JiraMaxDate(ss, Len(ss))
             completed == Cardinality({i \in 1..Len(ss) : MentionsDone(ss[i].Status)})
             led == SelectSeq(ss, LAMBDA st : st.CompletedAt # None)
             cycled == SelectSeq(led, LAMBDA st : st.StartedAt # None)
             leadTimes == [i \in 1..Len(led) |-> Days(led[i].CompletedAt - led[i].CreatedAt)]
             cycleTimes == [i \in 1..Len(cycled) |->
                               Days(cycled[i].CompletedAt - cycled[i].StartedAt)]
             totalEstimate == FSum([i \in 1..Len(ss) |-> ss[i].Estimate])
             totalActual == FSum([i \in 1..Len(ss) |-> ss[i].ActualEffort])
             weeksDiff == FDiv(Days(maxDate - minDate), Rat(DaysPerWeek, 1))
         IN  [TotalStories |-> Len(ss),
              CompletedStories |-> completed,
              AvgLeadTimeDays |->
                  IF Len(led) > 0
                  THEN FDiv(FSum(leadTimes), ToFloat(Len(led))) ELSE Zero,
              AvgCycleTimeDays |->
                  IF Len(cycled) > 0
                  THEN FDiv(FSum(cycleTimes), ToFloat(Len(cycled))) ELSE Zero,
              Throughput |->
                  IF weeksDiff.n > 0 THEN FDiv(ToFloat(completed), weeksDiff) ELSE Zero,
              AvgEstimate |-> FDiv(totalEstimate, ToFloat(Len(ss))),
              AvgActualEffort |-> FDiv(totalActual, ToFloat(Len(ss))),
              EstimateAccuracy |-> EstimateAccuracy(ss),
              StoriesByAssignee |-> CountBy([i \in 1..Len(ss) |-> ss[i].Assignee])]

\* the three blocks are computed from the collections alone; GeneratedAt is
\* the clock at the call
CalculateTeamMetrics_RangeUntilNow(cs, ps, ss, at) ==
    [computed |-> TRUE,
     CommitMetrics |->
         IF Len(cs) = 0 THEN NoCommitMetrics
         ELSE [CalculateCommitMetrics(cs) EXCEPT !.DateRange[2] = DateKey(at)],
     PRMetrics |-> CalculatePRMetrics(ps),
     JiraMetrics |-> CalculateJiraMetrics(ss),
     GeneratedAt |-> at]

CalculateTeamMetrics(cs, ps, ss, at) ==
    [computed |-> TRUE,
     CommitMetrics |-> CalculateCommitMetrics(cs),
     PRMetrics |-> CalculatePRMetrics(ps),
     JiraMetrics |-> CalculateJiraMetrics(ss),
     GeneratedAt |-> at]

\* ------------------------------------------------------------------ caller
NoData ==
    [bbCommits |-> <<>>, bbPRs |-> <<>>, ghBranches |-> <<>>, ghPRs |-> <<>>,
     jiraIssues |-> <<>>]

\* what the providers hold when a caller runs all the fetches
CallerData(t0) ==
    LET t == SinceAt(t0) + 1
    IN  [bbCommits |-> <<[id |-> 1, author |-> AuthorOf(1), authorTimestamp |-> t]>>,
         bbPRs |-> <<BBPullRequest(1, t), BBPullRequest(2, t)>>,
         ghBranches |-> <<[name |-> BranchNames[1], commits |-> <<GHCommitOf(1, t)>>]>>,
         ghPRs |-> <<GHPullRequest(1, t)>>,
         jiraIssues |-> <<JiraIssue(1, t), JiraIssue(2, t)>>]

NoReport ==
    [computed |-> FALSE, CommitMetrics |-> NoCommitMetrics, PRMetrics |-> NoPRMetrics,
     JiraMetrics |-> NoJiraMetrics, GeneratedAt |-> None]

\* the configuration: the providers whose URL is set, and IsJiraCloud
Config(sources, isCloud) ==
    [bitbucket |-> "bitbucket" \in sources, github |-> "github" \in sources,
     jira |-> "jira" \in sources, isJiraCloud |-> isCloud]

Order == <<"bbCommits", "bbPRs", "ghCommits", "ghPRs", "jiraIssues">>

\* the fetches a caller makes, in order: main and the server's getAllMetrics
\* ask the providers the configuration names; the Bitbucket-and-Jira
\* getAllMetrics asks its three unconditionally
Calls(e, c) ==
    IF e = "getAllMetrics (Bitbucket, Jira)"
    THEN <<"bbCommits", "bbPRs", "jiraIssues">>
    ELSE SelectSeq(Order, LAMBDA s :
             \/ s \in {"bbCommits", "bbPRs"} /\ c.bitbucket
             \/ s \in {"ghCommits", "ghPRs"} /\ c.github
             \/ s = "jiraIssues" /\ c.jira)

\* x, err = Fetch(); if err != nil { x = empty }
Assigned(r) == IF r.err # NoErr THEN <<>> ELSE r.recs

\* the field-by-field copy of a GitHub record into the Bitbucket type
ToBitbucketCommit(c) ==
    [Hash |-> c.Hash, Author |-> c.Author, Date |-> c.Date,
     LinesAdded |-> c.LinesAdded, LinesDeleted |-> c.LinesDeleted]

ToBitbucketPR(p) ==
    [ID |-> p.ID, Author |-> p.Author, CreatedAt |-> p.CreatedAt, MergedAt |-> p.MergedAt,
     ClosedAt |-> p.ClosedAt, FirstReviewAt |-> p.FirstReviewAt,
     LinesChanged |-> p.LinesChanged, Status |-> p.Status, Reviewers |-> p.Reviewers]

\* y, err := Fetch(); if err == nil { x = append(x, y...) }
Appended_DropsEarlier(cur, r) == IF r.err # NoErr THEN <<>> ELSE cur \o r.recs

Appended(cur, r) == IF r.err # NoErr THEN cur ELSE cur \o r.recs

AppendedCommits(cur, r) ==
    Appended(cur, [r EXCEPT !.recs = [i \in 1..Len(r.recs) |-> ToBitbucketCommit(r.recs[i])]])

AppendedPRs(cur, r) ==
    Appended(cur, [r EXCEPT !.recs = [i \in 1..Len(r.recs) |-> ToBitbucketPR(r.recs[i])]])

\* the adapter's first statements: since from the clock, the first cursor
StartFetch(s) ==
    /\ src' = s
    /\ pc' = "fetch"
    /\ since' = SinceAt(now)
    /\ start' = FirstCursor(s)
    /\ branch' = 0
    /\ response' = EmptyPage
    /\ idx' = 0
    /\ acc' = <<>>

\* after the collections are updated: the next fetch, or the report
CallNext(cs, ps, ss) ==
    LET calls == Calls(entry, cfg)
        done == IF pc = "start" THEN 0
                ELSE CHOOSE i \in 1..Len(calls) : calls[i] = src
    IN  /\ commits' = cs /\ prs' = ps /\ stories' = ss
        /\ IF done < Len(calls)
           THEN StartFetch(calls[done + 1]) /\ UNCHANGED <<report, previous>>
           ELSE /\ report' = CalculateTeamMetrics(cs, ps, ss, now)
                /\ pc' = "done"
                /\ UNCHANGED <<src, fetchVars, previous>>

Returns(s) == pc = "return" /\ src = s

\* the CLI run: main stops when no provider is configured; it assigns the
\* Bitbucket and Jira results and appends the GitHub ones
main ==
    /\ entry = "main" /\ pc \in {"start", "return"}
    /\ IF pc = "start" /\ Calls(entry, cfg) = <<>>
       THEN pc' = "done" /\ UNCHANGED <<src, fetchVars, callerVars>>
       ELSE CallNext(IF Returns("bbCommits") THEN Assigned(ret[src])
                     ELSE IF Returns("ghCommits") THEN AppendedCommits(commits, ret[src])
                     ELSE commits,
                     IF Returns("bbPRs") THEN Assigned(ret[src])
                     ELSE IF Returns("ghPRs") THEN AppendedPRs(prs, ret[src])
                     ELSE prs,
                     IF Returns("jiraIssues") THEN Assigned(ret[src]) ELSE stories)
    /\ UNCHANGED <<envVars, serverVars, now, ret, reqLog>>

\* GET /api/metrics: appends the Bitbucket and the GitHub results, assigns
\* the Jira result
getAllMetrics ==
    /\ entry = "getAllMetrics" /\ pc \in {"start", "return"}
    /\ CallNext(IF Returns("bbCommits") THEN Appended(commits, ret[src])
                ELSE IF Returns("ghCommits") THEN AppendedCommits(commits, ret[src])
                ELSE commits,
                IF Returns("bbPRs") THEN Appended(prs, ret[src])
                ELSE IF Returns("ghPRs") THEN AppendedPRs(prs, ret[src])
                ELSE prs,
                IF Returns("jiraIssues") THEN Assigned(ret[src]) ELSE stories)
    /\ UNCHANGED <<envVars, serverVars, now, ret, reqLog>>

\* GET /api/metrics of the server that knows Bitbucket and Jira only
getAllMetricsBitbucketJira ==
    /\ entry = "getAllMetrics (Bitbucket, Jira)" /\ pc \in {"start", "return"}
    /\ CallNext(IF Returns("bbCommits") THEN Assigned(ret[src]) ELSE commits,
                IF Returns("bbPRs") THEN Assigned(ret[src]) ELSE prs,
                IF Returns("jiraIssues") THEN Assigned(ret[src]) ELSE stories)
    /\ UNCHANGED <<envVars, serverVars, now, ret, reqLog>>

InitFetch(e, data) ==
    /\ entry = e
    /\ cfg \in {Config({}, c) : c \in IF e = "jiraIssues" THEN BOOLEAN ELSE {FALSE}}
    /\ provider = data
    /\ pc = "fetch"
    /\ src = e

InitCaller(e) ==
    /\ entry = e
    /\ cfg \in {Config(S, FALSE) :
                   S \in IF e = "getAllMetrics (Bitbucket, Jira)"
                         THEN {{"bitbucket", "jira"}}
                         ELSE SUBSET {"bitbucket", "github", "jira"}}
    /\ provider = CallerData(now0)
    /\ pc = "start"
    /\ src = "none"

Init ==
    /\ now0 \in {Window + MsPerSec, Window + MsPerSec + 1}
    /\ now = now0
    /\ \/ \E l \in BBCommitListings(now0) :
            InitFetch("bbCommits", [NoData EXCEPT !.bbCommits = l])
       \/ \E l \in BBPRListings(now0) :
            InitFetch("bbPRs", [NoData EXCEPT !.bbPRs = l])
       \/ \E l \in GHBranchListings(now0) :
            InitFetch("ghCommits", [NoData EXCEPT !.ghBranches = l])
       \/ \E l \in GHPRListings(now0) :
            InitFetch("ghPRs", [NoData EXCEPT !.ghPRs = l])
       \/ \E l \in JiraListings(now0) :
            InitFetch("jiraIssues", [NoData EXCEPT !.jiraIssues = l])
       \/ \E e \in Callers : InitCaller(e)
    /\ since = SinceAt(now0)
    /\ start = FirstCursor(src)
    /\ branch = 0
    /\ response = EmptyPage
    /\ idx = 0
    /\ acc = <<>>
    /\ ret = [s \in Sources |-> NotRun]
    /\ reqLog = <<>>
    /\ commits = <<>> /\ prs = <<>> /\ stories = <<>>
    /\ report = NoReport
    /\ previous = NoReport
    /\ rid = 0
    /\ parked = <<>>
    /\ responses = <<>>

Next ==
    \/ BitbucketFetchCommits
    \/ BitbucketFetchPRs
    \/ BitbucketFetchDiff
    \/ GitHubFetchBranches
    \/ GitHubFetchCommits
    \/ GitHubFetchPRs
    \/ GitHubFetchReviews
    \/ JiraFetchIssues
    \/ main
    \/ getAllMetrics
    \/ getAllMetricsBitbucketJira

Spec == Init /\ [][Next]_vars

\* one fetch of the Bitbucket adapter run to its end: the loop is sequential
\* code and every exchange ends (the HTTP client has a timeout), so a step
\* that can be taken is taken
BitbucketInit == Init /\ entry \in {"bbCommits", "bbPRs"}

BitbucketNext ==
    \/ BitbucketFetchCommits
    \/ BitbucketFetchPRs
    \/ BitbucketFetchDiff

BitbucketSpec == BitbucketInit /\ [][BitbucketNext]_vars /\ WF_vars(BitbucketNext)

\* --------------------------------------------------------------- web server
\* GET /api/bitbucket/metrics served for several requests at once: net/http
\* runs each request's handler in a goroutine of its own, and the scheduler
\* may move from one to another between any two exchanges

\* the requests in flight
MaxRequests == 2
Requests == 1..MaxRequests

\* what Bitbucket holds while the server runs: two commits and two pull
\* requests, in the window whenever a handler reads the clock
ServerData(t0) ==
    LET t == SinceAt(t0) + MaxDrift + MsPerSec
    IN  [NoData EXCEPT
            !.bbCommits = <<[id |-> 1, author |-> AuthorOf(1), authorTimestamp |-> t + 1],
                            [id |-> 2, author |-> AuthorOf(2), authorTimestamp |-> t]>>,
            !.bbPRs = <<BBPullRequest(1, t), BBPullRequest(2, t)>>]

NoResponse == [status |-> 0]

\* http.Error(w, msg, http.StatusInternalServerError)
ErrorResponse(msg) == [status |-> StatusInternalServerError, body |-> msg]

\* the JSON document of a successful request
MetricsResponse(cs, ps, at) ==
    [status |-> StatusOK,
     body |-> [status |-> "success",
               data |-> [commit_metrics |-> CalculateCommitMetrics(cs),
                         pr_metrics |-> CalculatePRMetrics(ps)],
               stats |-> [commits |-> Len(cs), prs |-> Len(ps)],
               timestamp |-> at]]

\* the local variables of the running handler and of the fetch it is in:
\* bbClient, commits, prs, err of the handler; commits or prs, start, since,
\* response of the fetch; and the exchanges it has made
Locals ==
    [pc |-> pc, src |-> src, since |-> since, start |-> start, response |-> response,
     idx |-> idx, acc |-> acc, ret |-> ret, reqLog |-> reqLog, commits |-> commits,
     prs |-> prs]

\* a handler that has not begun
NoLocals ==
    [pc |-> "start", src |-> "none", since |-> 0, start |-> 0, response |-> EmptyPage,
     idx |-> 0, acc |-> <<>>, ret |-> [s \in Sources |-> NotRun], reqLog |-> <<>>,
     commits |-> <<>>, prs |-> <<>>]

\* what a handler finds when it runs again: its own variables as it left
\* them, none of them being a field of the Server or of a shared client
Resumed_SharedResult(own) == [own EXCEPT !.acc = acc]

Resumed(own) == own

\* the handler: FetchCommits, then FetchPRs, then the metrics; an error of
\* either fetch is answered with status 500
getBitbucketMetrics ==
    /\ entry = "getBitbucketMetrics" /\ pc \in {"start", "return"}
    /\ IF pc = "start"
       THEN StartFetch("bbCommits") /\ UNCHANGED <<commits, prs, responses>>
       ELSE IF Returns("bbCommits") /\ ret[src].err # NoErr
       THEN /\ responses' = [responses EXCEPT ![rid] = ErrorResponse("Error fetching commits")]
            /\ pc' = "done"
            /\ UNCHANGED <<src, fetchVars, commits, prs>>
       ELSE IF Returns("bbCommits")
       THEN /\ commits' = ret[src].recs
            /\ StartFetch("bbPRs")
            /\ UNCHANGED <<prs, responses>>
       ELSE IF ret[src].err # NoErr
       THEN /\ responses' = [responses EXCEPT ![rid] = ErrorResponse("Error fetching PRs")]
            /\ pc' = "done"
            /\ UNCHANGED <<src, fetchVars, commits, prs>>
       ELSE /\ prs' = ret[src].recs
            /\ responses' = [responses EXCEPT
                                ![rid] = MetricsResponse(commits, ret[src].recs, now)]
            /\ pc' = "done"
            /\ UNCHANGED <<src, fetchVars, commits>>
    /\ UNCHANGED <<envVars, now, ret, reqLog, stories, report, previous, rid, parked>>

\* the scheduler leaves the running handler where it is and runs the handler
\* of request q, which has not finished
Switch(q) ==
    /\ entry = "getBitbucketMetrics"
    /\ q # rid /\ parked[q].pc # "done"
    /\ LET own == Resumed(parked[q])
       IN  /\ pc' = own.pc /\ src' = own.src /\ since' = own.since /\ start' = own.start
           /\ response' = own.response /\ idx' = own.idx /\ acc' = own.acc
           /\ ret' = own.ret /\ reqLog' = own.reqLog /\ commits' = own.commits
           /\ prs' = own.prs
    /\ parked' = [parked EXCEPT ![rid] = Locals, ![q] = NoLocals]
    /\ rid' = q
    /\ UNCHANGED <<envVars, now, branch, stories, report, previous, responses>>

\* MaxRequests requests have arrived and request 1 is scheduled first; the
\* clock stands, at the end of its drift, so that the runs of a handler
\* differ in what the provider answers and in the interleaving only
ServerInit ==
    /\ entry = "getBitbucketMetrics"
    /\ cfg = Config({"bitbucket"}, FALSE)
    /\ now0 = Window + MsPerSec
    /\ now = now0 + MaxDrift
    /\ provider = ServerData(now0)
    /\ pc = NoLocals.pc /\ src = NoLocals.src /\ since = NoLocals.since
    /\ start = NoLocals.start /\ response = NoLocals.response /\ idx = NoLocals.idx
    /\ acc = NoLocals.acc /\ ret = NoLocals.ret /\ reqLog = NoLocals.reqLog
    /\ commits = NoLocals.commits /\ prs = NoLocals.prs
    /\ branch = 0
    /\ stories = <<>>
    /\ report = NoReport
    /\ previous = NoReport
    /\ rid = 1
    /\ parked = [r \in Requests |-> NoLocals]
    /\ responses = [r \in Requests |-> NoResponse]

ServerNext ==
    \/ BitbucketFetchCommits
    \/ BitbucketFetchPRs
    \/ BitbucketFetchDiff
    \/ getBitbucketMetrics
    \/ \E q \in Requests : Switch(q)

ServerSpec == ServerInit /\ [][ServerNext]_vars

\* ------------------------------------------------------------- calculators
\* CalculateTeamMetrics called on collections of its caller's choosing, once
\* or twice, while the clock runs

\* the longest collection handed to a calculator
MaxItems == 3

SeqsUpTo(S, n) == UNION {[1..k -> S] : k \in 0..n}

\* 09:00 of a day
Morning == 3 * TicksPerDay + 9 * TicksPerHour

CommitValue(author, after, added, deleted) ==
    [Hash |-> "h", Author |-> author, Date |-> Morning + after * TicksPerHour,
     LinesAdded |-> added, LinesDeleted |-> deleted]

\* commits at 09:00 and at 17:00 of a day, at 01:00 of the next day and at
\* 09:00 three days later
CommitValues ==
    {CommitValue("alice", 0, 3, 1),
     CommitValue("bob", 8, 0, 0),
     CommitValue("alice", 16, 2, 2),
     CommitValue("bob", 3 * HoursPerDay, 1, 0)}

PRValue(author, status, mergedAfter, reviewedAfter, lines) ==
    [ID |-> 1, Author |-> author, CreatedAt |-> Morning,
     MergedAt |-> IF mergedAfter = None THEN None
                  ELSE Morning + mergedAfter * TicksPerHour,
     ClosedAt |-> None,
     FirstReviewAt |-> IF reviewedAfter = None THEN None
                       ELSE Morning + reviewedAfter * TicksPerHour,
     LinesChanged |-> lines, Status |-> status, Reviewers |-> <<>>]

\* merged ones with and without a merge time and a review, open, declined
\* and closed ones, and one whose status is none of these
PRValues ==
    {PRValue("alice", "MERGED", 10, 1, 10),
     PRValue("bob", "OPEN", None, None, 0),
     PRValue("alice", "DECLINED", None, 3, 4),
     PRValue("bob", "CLOSED", None, None, 2),
     PRValue("alice", "SUPERSEDED", None, None, 1),
     PRValue("bob", "MERGED", 2, None, 5),
     PRValue("carol", "MERGED", None, None, 0)}

StoryValue(assignee, status, createdDay, startedDay, completedDay, estimate, actual) ==
    [Key |-> "K", Assignee |-> assignee,
     CreatedAt |-> Morning + createdDay * TicksPerDay,
     StartedAt |-> IF startedDay = None THEN None ELSE Morning + startedDay * TicksPerDay,
     CompletedAt |-> IF completedDay = None THEN None
                     ELSE Morning + completedDay * TicksPerDay,
     Estimate |-> estimate, ActualEffort |-> actual, Status |-> status]

\* stories done within one and two weeks, done on the day they were created,
\* done without a completion time and with an estimate so large that adding
\* a half to it is rounded away, in progress and not started
StoryValues ==
    {StoryValue("alice", "Done", 0, 1, 7, Rat(5, 1), Rat(4, 1)),
     StoryValue("bob", "In Progress", 1, 2, None, Rat(3, 1), Rat(3, 1)),
     StoryValue("Unassigned", "To Do", 2, None, None, Zero, Zero),
     StoryValue("bob", "Resolved", 2, None, 14, Rat(3, 1), Rat(3, 1)),
     StoryValue("alice", "Done", 0, 0, 0, Rat(1, 2), Rat(2, 1)),
     StoryValue("carol", "Done", 1, 1, None, Rat(MinMantissa, 1), Rat(2, 1))}

\* the clock at the first call: the last tick of a day three weeks later
LastTick == 3 * TicksPerDay + 3 * TicksPerWeek - 1

CalcInit ==
    /\ entry = "CalculateTeamMetrics"
    /\ cfg = Config({}, FALSE)
    /\ provider = NoData
    /\ now0 = LastTick
    /\ now = now0
    /\ pc = "start"
    /\ src = "none"
    /\ since = SinceAt(now0)
    /\ start = FirstCursor(src)
    /\ branch = 0
    /\ response = EmptyPage
    /\ idx = 0
    /\ acc = <<>>
    /\ ret = [s \in Sources |-> NotRun]
    /\ reqLog = <<>>
    /\ \/ /\ commits \in SeqsUpTo(CommitValues, MaxItems)
          /\ prs = <<>> /\ stories = <<>>
       \/ /\ prs \in SeqsUpTo(PRValues, MaxItems)
          /\ commits = <<>> /\ stories = <<>>
       \/ /\ stories \in SeqsUpTo(StoryValues, MaxItems)
          /\ commits = <<>> /\ prs = <<>>
       \/ /\ commits \in SeqsUpTo(CommitValues, 1)
          /\ prs \in SeqsUpTo(PRValues, 1)
          /\ stories \in SeqsUpTo(StoryValues, 1)
    /\ report = NoReport
    /\ previous = NoReport
    /\ rid = 0
    /\ parked = <<>>
    /\ responses = <<>>

\* one call of CalculateTeamMetrics on the collections; a second call is
\* made on the same collections
CallCalculateTeamMetrics ==
    /\ entry = "CalculateTeamMetrics"
    /\ ~previous.computed
    /\ previous' = report
    /\ report' = CalculateTeamMetrics(commits, prs, stories, now)
    /\ pc' = "done"
    /\ UNCHANGED <<envVars, serverVars, now, src, fetchVars, ret, reqLog, commits, prs, stories>>

\* the clock moves on between the calls
ClockTick ==
    /\ entry = "CalculateTeamMetrics"
    /\ report.computed /\ ~previous.computed
    /\ now = report.GeneratedAt
    /\ now' = now + 1
    /\ UNCHANGED <<envVars, serverVars, pc, src, fetchVars, ret, reqLog, callerVars>>

CalcNext ==
    \/ CallCalculateTeamMetrics
    \/ ClockTick

CalcSpec == CalcInit /\ [][CalcNext]_vars
\* ================================================================== claims
\* the adapter s has returned and its caller has not yet gone on
Finished(s) == src = s /\ pc \in {"return", "done"}

\* the exchanges of adapter s, in order
IsOf(s, e) == e.src = s
Log(s) == SelectSeq(reqLog, LAMBDA e : IsOf(s, e))

NoExchangeFailed(s) == \A i \in 1..Len(Log(s)) : ~Failed(Log(s)[i])

Range(f) == {f[i] : i \in DOMAIN f}

\* C1: a listing of N records that the window keeps, served in order in pages
\* of PageSize with no request failing, comes back from Bitbucket FetchCommits,
\* Bitbucket FetchPRs and Jira FetchIssues as exactly those N records, each
\* once and in the listing's order.
C1_PaginationComplete ==
    /\ Finished("bbCommits") /\ NoExchangeFailed("bbCommits")
         /\ (\A i \in 1..Len(provider.bbCommits) : BBCommitDate(provider.bbCommits[i]) >= since)
       => /\ ret["bbCommits"].err = NoErr
          /\ [i \in 1..Len(ret["bbCommits"].recs) |-> ret["bbCommits"].recs[i].Hash]
               = [i \in 1..Len(provider.bbCommits) |-> provider.bbCommits[i].id]
    /\ Finished("bbPRs") /\ NoExchangeFailed("bbPRs")
         /\ (\A i \in 1..Len(provider.bbPRs) :
                UnixSec(provider.bbPRs[i].createdDate) >= SinceAt(now))
       => /\ ret["bbPRs"].err = NoErr
          /\ [i \in 1..Len(ret["bbPRs"].recs) |-> ret["bbPRs"].recs[i].ID]
               = [i \in 1..Len(provider.bbPRs) |-> <<"PR-", provider.bbPRs[i].id>>]
    /\ Finished("jiraIssues") /\ NoExchangeFailed("jiraIssues")
       => /\ ret["jiraIssues"].err = NoErr
          /\ [i \in 1..Len(ret["jiraIssues"].recs) |-> ret["jiraIssues"].recs[i].Key]
               = [i \in 1..Len(provider.jiraIssues) |-> provider.jiraIssues[i].key]

\* three pages, the last one short, all fetched: the 100, 100, 50 of the claim
C1_Witness ==
    /\ Finished("jiraIssues") /\ NoExchangeFailed("jiraIssues")
    /\ Len(provider.jiraIssues) = 2 * PageSize + 1
    /\ Len(Log("jiraIssues")) = 3
    /\ Len(ret["jiraIssues"].recs) = 2 * PageSize + 1

C1_WitnessBitbucket ==
    /\ Finished("bbPRs") /\ NoExchangeFailed("bbPRs")
    /\ Len(provider.bbPRs) = 2 * PageSize + 1
    /\ Len(ret["bbPRs"].recs) = 2 * PageSize + 1
ListingKinds == {"list", "branches", "search"}

\* C2: a request answered with 429 is issued again, and a fetch whose only
\* failed exchanges were rate-limit answers returns what it returns without
\* them: no error.
C2_RateLimitRetried ==
    \A s \in Sources :
        Finished(s) =>
            /\ \A i \in 1..Len(Log(s)) :
                  Log(s)[i].status = StatusTooManyRequests
                  => /\ i < Len(Log(s))
                     /\ Log(s)[i + 1].kind = Log(s)[i].kind
                     /\ Log(s)[i + 1].arg = Log(s)[i].arg
            /\ (\A i \in 1..Len(Log(s)) :
                   Failed(Log(s)[i]) => Log(s)[i].status = StatusTooManyRequests)
               => ret[s].err = NoErr

\* C3: a fetch fails on a rate-limit answer only with an error of its own
\* kind, not with the generic "API request failed with status" error.
C3_RateLimitErrorDistinct ==
    \A s \in Sources :
        ret[s].ran /\ ret[s].err.status = StatusTooManyRequests
        => ret[s].err.kind # "API request failed with status"

\* C4: a listing request answered with a status other than 200 and 429 is the
\* fetch's last exchange; the fetch returns the error with that status and
\* body, and no records.
C4_ListingFailureTerminal ==
    \A s \in Sources :
        \A i \in 1..Len(Log(s)) :
            LET e == Log(s)[i]
            IN  e.kind \in ListingKinds /\ e.status \notin {0, StatusOK, StatusTooManyRequests}
                => /\ i = Len(Log(s))
                   /\ ret[s].ran
                   /\ ret[s].err.kind = "API request failed with status"
                   /\ ret[s].err.status = e.status
                   /\ ret[s].err.body = e.body
                   /\ ret[s].recs = <<>>

\* a later page fails after earlier pages gave records: they are not returned
C4_Witness ==
    /\ Finished("bbCommits")
    /\ Len(Log("bbCommits")) = 3
    /\ Log("bbCommits")[3].status = StatusInternalServerError
    /\ Len(acc) = 2 * PageSize
    /\ ret["bbCommits"].recs = <<>>
    /\ ret["bbCommits"].err.body = "e2"

NewestFirst(ts) == \A i \in 1..(Len(ts) - 1) : ts[i] >= ts[i + 1]

Hashes(recs) == {recs[i].Hash : i \in 1..Len(recs)}
IDs(recs) == {recs[i].ID : i \in 1..Len(recs)}

BBTimestamps == [i \in 1..Len(provider.bbCommits) |-> provider.bbCommits[i].authorTimestamp]
GHDates(b) ==
    [i \in 1..Len(provider.ghBranches[b].commits) |-> provider.ghBranches[b].commits[i].date]

\* C6 for Bitbucket: of a newest-first listing fetched without a failure, the
\* commit whose timestamp is exactly `since` is returned and a commit whose
\* timestamp is before `since` is not.
C6_BitbucketBoundary ==
    Finished("bbCommits") /\ NoExchangeFailed("bbCommits") /\ NewestFirst(BBTimestamps)
    => \A i \in 1..Len(provider.bbCommits) :
          LET c == provider.bbCommits[i]
          IN  /\ c.authorTimestamp = since => c.id \in Hashes(ret["bbCommits"].recs)
              /\ c.authorTimestamp < since => c.id \notin Hashes(ret["bbCommits"].recs)

\* C6 for GitHub: the same, every branch being listed newest first.
C6_GitHubBoundary ==
    Finished("ghCommits") /\ NoExchangeFailed("ghCommits")
        /\ (\A b \in 1..Len(provider.ghBranches) : NewestFirst(GHDates(b)))
    => \A b \in 1..Len(provider.ghBranches) :
          \A i \in 1..Len(provider.ghBranches[b].commits) :
              LET c == provider.ghBranches[b].commits[i]
              IN  /\ c.date = since => c.sha \in Hashes(ret["ghCommits"].recs)
                  /\ c.date < since => c.sha \notin Hashes(ret["ghCommits"].recs)

\* C6: the window's lower bound is inclusive in FetchCommits of Bitbucket and
\* of GitHub: the commit at exactly now - windowDays is returned, an earlier
\* one is not.
C6_BoundaryInclusive == C6_BitbucketBoundary /\ C6_GitHubBoundary

\* C7: GitHub FetchPRs returns a record for every pull request of the listing
\* created at or after `since`, wherever it stands in its page.
C7_GitHubPRsComplete ==
    Finished("ghPRs") /\ NoExchangeFailed("ghPRs")
    => \A i \in 1..Len(provider.ghPRs) :
          provider.ghPRs[i].created_at >= since
          => <<"PR-", provider.ghPRs[i].number>> \in IDs(ret["ghPRs"].recs)
HashSeq(recs) == [i \in 1..Len(recs) |-> recs[i].Hash]

\* the number of pages of PageSize that hold the first n items of a listing
PagesFor(n) == (n + PageSize - 1) \div PageSize

\* C8: of a Bitbucket commit listing in descending order of time, fetched
\* without a failure, FetchCommits returns exactly the commits whose date is
\* not before `since`, and the last page it requests is the first page that
\* holds a commit before `since`. The date is the one the record carries:
\* the authorTimestamp in whole seconds. Descending admits equal times, which
\* covers the strictly descending listings of the claim.
C8_BitbucketEarlyStop ==
    Finished("bbCommits") /\ NoExchangeFailed("bbCommits") /\ NewestFirst(BBTimestamps)
    => LET list == provider.bbCommits
           dates == [i \in 1..Len(list) |-> UnixSec(list[i].authorTimestamp)]
           inWindow == SelectSeq(list, LAMBDA c : UnixSec(c.authorTimestamp) >= since)
           older == {i \in 1..Len(list) : dates[i] < since}
           firstOlder == CHOOSE i \in older : \A j \in older : i <= j
       IN  /\ ret["bbCommits"].err = NoErr
           /\ HashSeq(ret["bbCommits"].recs) = [i \in 1..Len(inWindow) |-> inWindow[i].id]
           /\ Len(Log("bbCommits")) =
                  IF older = {} THEN Max(1, PagesFor(Len(list))) ELSE PagesFor(firstOlder)

\* a listing of three pages whose second page holds the first older commit:
\* the third page is never requested
C8_Witness ==
    /\ Finished("bbCommits") /\ NoExchangeFailed("bbCommits") /\ NewestFirst(BBTimestamps)
    /\ Len(provider.bbCommits) = 2 * PageSize + 1
    /\ UnixSec(provider.bbCommits[PageSize].authorTimestamp) >= since
    /\ UnixSec(provider.bbCommits[2 * PageSize].authorTimestamp) < since
    /\ Len(Log("bbCommits")) = 2
    /\ Len(ret["bbCommits"].recs) >= PageSize

BranchIndex(name) == CHOOSE b \in 1..Len(BranchNames) : BranchNames[b] = name

\* the commits GitHub FetchCommits keeps of one page of one branch: those
\* before the first one older than `since`
GHKeptOfPage(b, page) ==
    LET list == OffsetPage(provider.ghBranches[b].commits, (page - 1) * PageSize)
        older == {i \in 1..Len(list) : list[i].date < since}
        n == IF older = {} THEN Len(list)
             ELSE (CHOOSE i \in older : \A j \in older : i <= j) - 1
    IN  [i \in 1..n |-> list[i].sha]

RECURSIVE GHKeptOfLog(_)
GHKeptOfLog(log) ==
    IF log = <<>> THEN <<>>
    ELSE LET e == log[Len(log)]
         IN  GHKeptOfLog(SubSeq(log, 1, Len(log) - 1))
             \o (IF e.kind = "branches" \/ Failed(e) THEN <<>>
                 ELSE GHKeptOfPage(BranchIndex(e.kind), e.arg))

\* C9: in GitHub FetchCommits a failed branch listing fails the fetch with
\* no commits and no further request; a failed page of a branch's commits
\* ends that branch only: the fetch returns no error, it has requested every
\* branch, and it returns the commits of all the pages that were answered.
C9_GitHubBranchFailure ==
    Finished("ghCommits") =>
        LET log == Log("ghCommits")
        IN  IF Failed(log[1])
            THEN /\ ret["ghCommits"].err # NoErr
                 /\ ret["ghCommits"].recs = <<>>
                 /\ Len(log) = 1
            ELSE /\ ret["ghCommits"].err = NoErr
                 /\ \A b \in 1..Len(provider.ghBranches) :
                       \E i \in 2..Len(log) : log[i].kind = provider.ghBranches[b].name
                 /\ \A i \in 2..Len(log) :
                       Failed(log[i]) => \A j \in (i + 1)..Len(log) : log[j].kind # log[i].kind
                 /\ HashSeq(ret["ghCommits"].recs) = GHKeptOfLog(log)

\* the second page of the first branch fails; the commits of its first page
\* and those of the second branch are returned
C9_Witness ==
    /\ Finished("ghCommits")
    /\ Len(provider.ghBranches) = 2
    /\ ret["ghCommits"].err = NoErr
    /\ \E i \in 2..Len(Log("ghCommits")) :
          /\ Failed(Log("ghCommits")[i])
          /\ Log("ghCommits")[i].kind = BranchNames[1]
          /\ Log("ghCommits")[i].arg = 2
    /\ GHKeptOfPage(1, 1) # <<>> /\ GHKeptOfPage(2, 1) # <<>>
    /\ HashSeq(ret["ghCommits"].recs) = GHKeptOfPage(1, 1) \o GHKeptOfPage(2, 1)

ListingAnswered(s) ==
    \A i \in 1..Len(Log(s)) : Log(s)[i].kind \in ListingKinds => ~Failed(Log(s)[i])

SecondaryFailed(s, id) ==
    \E i \in 1..Len(Log(s)) :
        Log(s)[i].kind \notin ListingKinds /\ Log(s)[i].arg = id /\ Failed(Log(s)[i])

\* C10 for Bitbucket: when every listing request is answered, the fetch
\* returns no error and a record for every pull request created in the
\* window, with linesChanged 0 where the diff request failed.
C10_BitbucketDiffFailure ==
    Finished("bbPRs") /\ ListingAnswered("bbPRs")
    => /\ ret["bbPRs"].err = NoErr
       /\ \A i \in 1..Len(provider.bbPRs) :
             LET pr == provider.bbPRs[i]
             IN  UnixSec(pr.createdDate) >= SinceAt(now)
                 => \E k \in 1..Len(ret["bbPRs"].recs) :
                       LET rec == ret["bbPRs"].recs[k]
                       IN  /\ rec.ID = <<"PR-", pr.id>>
                           /\ SecondaryFailed("bbPRs", pr.id) => rec.LinesChanged = 0

\* C10 for GitHub: the same, with no first review time and no reviewers where
\* the reviews request failed.
C10_GitHubReviewsFailure ==
    Finished("ghPRs") /\ ListingAnswered("ghPRs")
    => /\ ret["ghPRs"].err = NoErr
       /\ \A i \in 1..Len(provider.ghPRs) :
             LET pr == provider.ghPRs[i]
             IN  pr.created_at >= since
                 => \E k \in 1..Len(ret["ghPRs"].recs) :
                       LET rec == ret["ghPRs"].recs[k]
                       IN  /\ rec.ID = <<"PR-", pr.number>>
                           /\ SecondaryFailed("ghPRs", pr.number)
                              => rec.FirstReviewAt = None /\ rec.Reviewers = <<>>

\* C10: a failed diff or reviews request never fails FetchPRs; the record of
\* every in-window pull request is still returned, with the defaults.
C10_SecondaryFailureNonFatal == C10_BitbucketDiffFailure /\ C10_GitHubReviewsFailure
\* what source s contributes to the report: its records when its fetch
\* returned no error, nothing otherwise
Contribution(s) == IF ret[s].ran /\ ret[s].err = NoErr THEN ret[s].recs ELSE <<>>

CallerDone == entry \in Callers /\ pc = "done"

\* C5: a run of main or of /api/metrics whose fetches fail in part still ends
\* with a report, and the report is the aggregation of exactly the records
\* of the fetches that succeeded: a failed fetch contributes nothing, the
\* block of a record type none of whose fetches succeeded is zero-valued.
C5_PartialFailureReport ==
    CallerDone /\ (entry = "main" => Calls(entry, cfg) # <<>>)
    => LET cs == Contribution("bbCommits") \o Contribution("ghCommits")
           ps == Contribution("bbPRs") \o Contribution("ghPRs")
           ss == Contribution("jiraIssues")
       IN  /\ report.computed
           /\ \A s \in Range(Calls(entry, cfg)) : ret[s].ran
           /\ report.CommitMetrics = CalculateCommitMetrics(cs)
           /\ report.PRMetrics = CalculatePRMetrics(ps)
           /\ report.JiraMetrics = CalculateJiraMetrics(ss)
           /\ cs = <<>> => report.CommitMetrics.TotalCommits = 0
                           /\ report.CommitMetrics.CommitsByAuthor.entries = <<>>
           /\ ps = <<>> => report.PRMetrics.TotalPRs = 0
                           /\ report.PRMetrics.MergeSuccessRate = Zero
           /\ ss = <<>> => report.JiraMetrics.TotalStories = 0
                           /\ report.JiraMetrics.Throughput = Zero

\* main with every provider configured: the GitHub commits fetch failed, the
\* report counts the Bitbucket commits and the other sources' records
C5_Witness ==
    /\ CallerDone /\ entry = "main"
    /\ cfg.bitbucket /\ cfg.github /\ cfg.jira
    /\ ret["ghCommits"].err # NoErr
    /\ ret["bbCommits"].err = NoErr
    /\ report.computed
    /\ report.CommitMetrics.TotalCommits = 1
    /\ report.PRMetrics.TotalPRs > 0
    /\ report.JiraMetrics.TotalStories = 2

\* /api/metrics: both commit fetches failed, the commit block is zero-valued
C5_WitnessZeroBlock ==
    /\ CallerDone /\ entry = "getAllMetrics"
    /\ cfg.bitbucket /\ cfg.github
    /\ ret["bbCommits"].err # NoErr /\ ret["ghCommits"].err # NoErr
    /\ report.computed
    /\ report.CommitMetrics = NoCommitMetrics
    /\ report.PRMetrics.TotalPRs > 0

\* ------------------------------------------------------- calculator claims
\* a call of CalculateTeamMetrics has returned
Calculated == entry = "CalculateTeamMetrics" /\ report.computed

\* a made map without entries
EmptyMap == [isNil |-> FALSE, entries |-> <<>>]

\* C11: each calculator, handed an empty collection, returns a block whose
\* numeric fields are all zero, whose strings are empty and whose mappings
\* are empty but not nil; the call does not fail
C11_EmptyInputZeroBlock ==
    Calculated =>
        /\ commits = <<>> =>
              report.CommitMetrics =
                  [TotalCommits |-> 0, CommitsPerDay |-> [n |-> 0, d |-> 1],
                   CommitsByAuthor |-> EmptyMap, CommitsByWeekday |-> EmptyMap,
                   TotalLinesAdded |-> 0, TotalLinesDeleted |-> 0, ActiveDays |-> 0,
                   DateRange |-> <<>>]
        /\ prs = <<>> =>
              report.PRMetrics =
                  [TotalPRs |-> 0, MergedPRs |-> 0, ClosedPRs |-> 0, OpenPRs |-> 0,
                   AvgCycleTimeHours |-> [n |-> 0, d |-> 1],
                   AvgReviewTimeHours |-> [n |-> 0, d |-> 1],
                   AvgPRSize |-> [n |-> 0, d |-> 1], PRsByAuthor |-> EmptyMap,
                   MergeSuccessRate |-> [n |-> 0, d |-> 1]]
        /\ stories = <<>> =>
              report.JiraMetrics =
                  [TotalStories |-> 0, CompletedStories |-> 0,
                   AvgLeadTimeDays |-> [n |-> 0, d |-> 1],
                   AvgCycleTimeDays |-> [n |-> 0, d |-> 1],
                   Throughput |-> [n |-> 0, d |-> 1], AvgEstimate |-> [n |-> 0, d |-> 1],
                   AvgActualEffort |-> [n |-> 0, d |-> 1],
                   EstimateAccuracy |-> [n |-> 0, d |-> 1],
                   StoriesByAssignee |-> EmptyMap]

\* C11 witness: the three calculators have run on empty collections
C11_Witness ==
    Calculated /\ commits = <<>> /\ prs = <<>> /\ stories = <<>>

\* a ratio lies between two integers
RatWithin(r, lo, hi) == r.d > 0 /\ lo * r.d <= r.n /\ r.n <= hi * r.d

\* C12: MergeSuccessRate lies within [0, 100] for any non-empty collection
\* of pull requests and is exactly 0 for an empty one
C12_MergeSuccessRateRange ==
    Calculated =>
        /\ RatWithin(report.PRMetrics.MergeSuccessRate, 0, 100)
        /\ prs = <<>> => report.PRMetrics.MergeSuccessRate.n = 0

\* C12 witness: some but not all of the pull requests are merged, and the
\* rate is strictly between 0 and 100
C12_Witness ==
    /\ Calculated
    /\ \E i, j \in 1..Len(prs) : prs[i].Status = "MERGED" /\ prs[j].Status # "MERGED"
    /\ ~RatWithin(report.PRMetrics.MergeSuccessRate, 0, 0)
    /\ ~RatWithin(report.PRMetrics.MergeSuccessRate, 100, 100)

\* the pull requests whose status is one of S
WithStatus(S) == {i \in 1..Len(prs) : prs[i].Status \in S}

\* C13: MergedPRs + ClosedPRs + OpenPRs never exceeds TotalPRs; a pull
\* request whose status is none of MERGED, DECLINED, CLOSED, OPEN is counted
\* in TotalPRs and in no status counter, and the call does not fail
C13_StatusCounts ==
    Calculated =>
        LET m == report.PRMetrics
        IN  /\ m.TotalPRs = Len(prs)
            /\ m.MergedPRs = Cardinality(WithStatus({"MERGED"}))
            /\ m.ClosedPRs = Cardinality(WithStatus({"DECLINED", "CLOSED"}))
            /\ m.OpenPRs = Cardinality(WithStatus({"OPEN"}))
            /\ m.MergedPRs + m.ClosedPRs + m.OpenPRs <= m.TotalPRs

\* C13 witness: a pull request of another status is among those counted,
\* and the three counters add up to less than the total
C13_Witness ==
    /\ Calculated
    /\ \E i \in 1..Len(prs) : prs[i].Status \notin {"MERGED", "DECLINED", "CLOSED", "OPEN"}
    /\ \E i \in 1..Len(prs) : prs[i].Status = "OPEN"
    /\ report.PRMetrics.MergedPRs + report.PRMetrics.ClosedPRs + report.PRMetrics.OpenPRs
           < report.PRMetrics.TotalPRs

\* the hours from creation to the merge, resp. to the first review, of each
\* pull request that has one, and 0 for the others
PRHours(ps) ==
    [i \in 1..Len(ps) |->
        IF ps[i].MergedAt # None THEN Hours(ps[i].MergedAt - ps[i].CreatedAt) ELSE Zero]
PRReviewHours(ps) ==
    [i \in 1..Len(ps) |->
        IF ps[i].FirstReviewAt # None
        THEN Hours(ps[i].FirstReviewAt - ps[i].CreatedAt) ELSE Zero]

\* avg is total / count as float64, or 0 if count is 0
IsAverage(avg, total, count) ==
    avg = IF count = 0 THEN [n |-> 0, d |-> 1] ELSE FDiv(total, ToFloat(count))

\* C14: the average cycle time is taken over the pull requests with a
\* MergedAt only, the average review time over those with a FirstReviewAt
\* only; each is 0 when no pull request qualifies
C14_AveragesOverQualifying ==
    Calculated =>
        /\ IsAverage(report.PRMetrics.AvgCycleTimeHours, FSum(PRHours(prs)),
                     Cardinality({i \in 1..Len(prs) : prs[i].MergedAt # None}))
        /\ IsAverage(report.PRMetrics.AvgReviewTimeHours, FSum(PRReviewHours(prs)),
                     Cardinality({i \in 1..Len(prs) : prs[i].FirstReviewAt # None}))

\* C14 witness: two pull requests created at the same time, one merged ten
\* hours later and one not merged, give an average cycle time of 10 hours
C14_Witness ==
    /\ Calculated
    /\ Len(prs) = 2
    /\ prs[1].CreatedAt = prs[2].CreatedAt
    /\ prs[1].MergedAt = prs[1].CreatedAt + 10 * TicksPerHour
    /\ prs[2].MergedAt = None
    /\ report.PRMetrics.AvgCycleTimeHours = [n |-> 10, d |-> 1]

\* the sums of the stories' estimates and of their actual efforts, added up
\* in the stories' order
TotalEstimate == FSum([i \in 1..Len(stories) |-> stories[i].Estimate])
TotalActual == FSum([i \in 1..Len(stories) |-> stories[i].ActualEffort])

\* C15: EstimateAccuracy is (1 - |sum of actual efforts - sum of estimates|
\* / sum of estimates) * 100, taken over the sums and not story by story,
\* and 0 when the sum of the estimates is 0
C15_EstimateAccuracyOverSums ==
    Calculated =>
        report.JiraMetrics.EstimateAccuracy =
            IF TotalEstimate.n = 0 THEN [n |-> 0, d |-> 1]
            ELSE LET off == FSub(TotalActual, TotalEstimate)
                     miss == FDiv(IF off.n < 0 THEN [off EXCEPT !.n = -@] ELSE off,
                                  TotalEstimate)
                 IN  FMul(FSub(Rat(1, 1), miss), Rat(100, 1))

\* C15 witness: a story estimated 5 that took 4 and one estimated 3 that
\* took 3 give 87.5
C15_Witness ==
    /\ Calculated
    /\ Len(stories) = 2
    /\ stories[1].Estimate = [n |-> 5, d |-> 1] /\ stories[1].ActualEffort = [n |-> 4, d |-> 1]
    /\ stories[2].Estimate = [n |-> 3, d |-> 1] /\ stories[2].ActualEffort = [n |-> 3, d |-> 1]
    /\ report.JiraMetrics.EstimateAccuracy = [n |-> 175, d |-> 2]

\* C15 witness for the zero case: stories without an estimate give 0
C15_WitnessNoEstimate ==
    Calculated /\ stories # <<>> /\ TotalEstimate.n = 0

\* the days on which there is a commit, and the earliest and the latest
\* commit time
CommitDays == {DateKey(commits[i].Date) : i \in 1..Len(commits)}
EarliestCommit ==
    CHOOSE t \in {commits[i].Date : i \in 1..Len(commits)} :
        \A i \in 1..Len(commits) : t <= commits[i].Date
LatestCommit ==
    CHOOSE t \in {commits[i].Date : i \in 1..Len(commits)} :
        \A i \in 1..Len(commits) : commits[i].Date <= t

\* C16: when all commits fall on a single calendar day CommitsPerDay is 0;
\* otherwise it is TotalCommits divided by the time from the earliest to the
\* latest commit, in days
C16_CommitsPerDay ==
    Calculated /\ commits # <<>> =>
        report.CommitMetrics.CommitsPerDay =
            IF Cardinality(CommitDays) = 1 THEN [n |-> 0, d |-> 1]
            ELSE FDiv(ToFloat(Len(commits)), Days(LatestCommit - EarliestCommit))

\* C17: for any non-empty collection of commits, ActiveDays is at least 1
\* and at most TotalCommits, and CommitsPerDay is not negative
C17_ActiveDaysRange ==
    Calculated /\ commits # <<>> =>
        LET m == report.CommitMetrics
        IN  /\ 1 <= m.ActiveDays
            /\ m.ActiveDays <= m.TotalCommits
            /\ m.CommitsPerDay.d > 0 /\ m.CommitsPerDay.n >= 0

\* C17 witness: commits on fewer days than there are commits, on more than
\* one day and three days apart, with a positive rate
C17_Witness ==
    /\ Calculated
    /\ 1 < report.CommitMetrics.ActiveDays
    /\ report.CommitMetrics.ActiveDays < report.CommitMetrics.TotalCommits
    /\ \E i, j \in 1..Len(commits) : commits[j].Date = commits[i].Date + 3 * TicksPerDay
    /\ report.CommitMetrics.CommitsPerDay.n > 0

\* the earliest creation time and the completion times of the stories
EarliestCreated ==
    CHOOSE t \in {stories[i].CreatedAt : i \in 1..Len(stories)} :
        \A i \in 1..Len(stories) : t <= stories[i].CreatedAt
CompletionTimes ==
    {stories[i].CompletedAt : i \in {j \in 1..Len(stories) : stories[j].CompletedAt # None}}
LatestCompleted == CHOOSE t \in CompletionTimes : \A u \in CompletionTimes : u <= t

\* C18: Throughput is CompletedStories divided by the weeks from the earliest
\* CreatedAt to the latest CompletedAt, wherever the stories without a
\* CompletedAt stand; it is 0, and never negative, when that span is zero or
\* no story has a CompletedAt
C18_Throughput ==
    Calculated /\ stories # <<>> =>
        LET m == report.JiraMetrics
        IN  /\ m.Throughput.d > 0 /\ m.Throughput.n >= 0
            /\ m.Throughput =
                  IF CompletionTimes = {} \/ LatestCompleted = EarliestCreated
                  THEN [n |-> 0, d |-> 1]
                  ELSE FDiv(ToFloat(m.CompletedStories),
                            FDiv(Days(LatestCompleted - EarliestCreated),
                                 Rat(DaysPerWeek, 1)))

\* C18 witness: the first story has no CompletedAt, the latest completion
\* is not the last one in the collection, and the throughput is positive
C18_Witness ==
    /\ Calculated
    /\ Len(stories) >= 3
    /\ stories[1].CompletedAt = None
    /\ \E i, j \in 1..Len(stories) :
          /\ i < j
          /\ stories[i].CompletedAt # None /\ stories[j].CompletedAt # None
          /\ stories[i].CompletedAt > stories[j].CompletedAt
    /\ report.JiraMetrics.Throughput.n > 0

\* C18 witness for the zero cases: a story completed at the time it was
\* created, and stories none of which has a CompletedAt
C18_WitnessZeroSpan ==
    /\ Calculated /\ stories # <<>>
    /\ CompletionTimes # {} /\ LatestCompleted = EarliestCreated
    /\ report.JiraMetrics.CompletedStories > 0
C18_WitnessNoneCompleted ==
    /\ Calculated /\ stories # <<>>
    /\ CompletionTimes = {}
    /\ report.JiraMetrics.CompletedStories > 0

\* CalculateTeamMetrics has been called twice on the same collections
CalculatedTwice == Calculated /\ previous.computed

Perms(n) == {p \in [1..n -> 1..n] : \A i, j \in 1..n : p[i] = p[j] => i = j}
Permuted(xs, p) == [i \in 1..Len(xs) |-> xs[p[i]]]

\* the first call of CalculateTeamMetrics has just returned
JustCalculated == Calculated /\ ~previous.computed /\ report.GeneratedAt = now

\* C20 as stated: for every permutation of the commits, of the pull requests
\* and of the stories the three reducers return the same metrics
C20_OrderIndependent ==
    JustCalculated =>
        /\ \A p \in Perms(Len(commits)) :
              CalculateCommitMetrics(Permuted(commits, p)) = report.CommitMetrics
        /\ \A p \in Perms(Len(prs)) :
              CalculatePRMetrics(Permuted(prs, p)) = report.PRMetrics
        /\ \A p \in Perms(Len(stories)) :
              CalculateJiraMetrics(Permuted(stories, p)) = report.JiraMetrics

\* the fields that are counts, per-key mappings or derived from them and
\* from the earliest and latest dates
PRCounts(m) ==
    <<m.TotalPRs, m.MergedPRs, m.ClosedPRs, m.OpenPRs, m.PRsByAuthor, m.MergeSuccessRate>>
StoryCounts(m) ==
    <<m.TotalStories, m.CompletedStories, m.StoriesByAssignee, m.Throughput>>

\* C20 amended: for every permutation of the same collection the reducers
\* return the same counts, per-key mappings, date range, ActiveDays,
\* CommitsPerDay, MergeSuccessRate and Throughput (the averages and
\* EstimateAccuracy are left out: they come from float64 sums added up in the
\* order of the collection)
C20_OrderIndependentCounts ==
    JustCalculated =>
        /\ \A p \in Perms(Len(commits)) :
              CalculateCommitMetrics(Permuted(commits, p)) = report.CommitMetrics
        /\ \A p \in Perms(Len(prs)) :
              PRCounts(CalculatePRMetrics(Permuted(prs, p))) = PRCounts(report.PRMetrics)
        /\ \A p \in Perms(Len(stories)) :
              StoryCounts(CalculateJiraMetrics(Permuted(stories, p)))
                  = StoryCounts(report.JiraMetrics)

\* C20 witness: three commits whose earliest is neither the first nor the
\* last one handed over
C20_Witness ==
    /\ JustCalculated
    /\ Len(commits) = 3
    /\ commits[2].Date < commits[1].Date /\ commits[2].Date < commits[3].Date
    /\ commits[1].Date # commits[3].Date
    /\ commits[1].Author # commits[2].Author

\* C20 witness for the stories: the first of three stories has no
\* CompletedAt, the other two have, the later completion coming first
C20_WitnessStories ==
    /\ JustCalculated
    /\ Len(stories) = 3
    /\ stories[1].CompletedAt = None
    /\ stories[2].CompletedAt # None /\ stories[3].CompletedAt # None
    /\ stories[2].CompletedAt > stories[3].CompletedAt
    /\ report.JiraMetrics.Throughput.n > 0

\* C20 witness for the rounding: the stories' estimates add up to different
\* float64 sums in two orders
C20_WitnessRounding ==
    /\ JustCalculated
    /\ \E p \in Perms(Len(stories)) :
          FSum([i \in 1..Len(stories) |-> stories[p[i]].Estimate]) # TotalEstimate

\* ---------------------------------------------------------- adapter claims
\* the records adapter s has collected or returned
Collected(s) ==
    IF src = s /\ pc = "fetch" THEN acc ELSE ret[s].recs

\* positions i < j of a listing's timestamps with i before s and j not
OutThenIn(dates, s) ==
    \E i, j \in 1..Len(dates) : i < j /\ dates[i] < s /\ dates[j] >= s

\* C21: whatever the order of a provider's listing, every Commit that
\* FetchCommits (Bitbucket, GitHub) collects has Date >= now - window and every
\* PullRequest that FetchPRs (Bitbucket, GitHub) collects has
\* CreatedAt >= now - window, now being the clock when the fetch was called or
\* read (the adapter's `since`), which is never before the invocation.
C21_OnlyInWindow ==
    /\ \A s \in {"bbCommits", "ghCommits"} :
          \A i \in 1..Len(Collected(s)) :
              /\ Collected(s)[i].Date >= SinceAt(now0)
              /\ src = s => Collected(s)[i].Date >= since
    /\ \A s \in {"bbPRs", "ghPRs"} :
          \A i \in 1..Len(Collected(s)) :
              /\ Collected(s)[i].CreatedAt >= SinceAt(now0)
              /\ src = s => Collected(s)[i].CreatedAt >= since

\* C21 witness: Bitbucket FetchPRs has returned records from a listing in
\* which a request created before the window precedes one created in it
C21_Witness ==
    /\ Finished("bbPRs")
    /\ OutThenIn([i \in 1..Len(provider.bbPRs) |-> UnixSec(provider.bbPRs[i].createdDate)],
                 SinceAt(now))
    /\ ret["bbPRs"].recs # <<>>

\* C21 witness for GitHub: FetchPRs has returned records from a listing out
\* of order
C21_WitnessGitHub ==
    /\ Finished("ghPRs")
    /\ OutThenIn([i \in 1..Len(provider.ghPRs) |-> provider.ghPRs[i].created_at], since)
    /\ ret["ghPRs"].recs # <<>>

\* C22: GitHub FetchCommits returns, for every branch and every page it was
\* answered, each commit of that page with date >= since, also a commit that
\* follows an older one on the page.
C22_GitHubFiltersWholePage ==
    Finished("ghCommits") =>
        \A k \in 2..Len(Log("ghCommits")) :
            LET e == Log("ghCommits")[k]
                list == OffsetPage(provider.ghBranches[BranchIndex(e.kind)].commits,
                                   (e.arg - 1) * PageSize)
            IN  ~Failed(e) =>
                    \A i \in 1..Len(list) :
                        list[i].date >= since => list[i].sha \in Hashes(ret["ghCommits"].recs)

\* MERGED goes with MergedAt set and ClosedAt unset, CLOSED and DECLINED with
\* ClosedAt set and MergedAt unset
StatusMatchesDates(p) ==
    /\ p.Status = "MERGED" => p.MergedAt # None /\ p.ClosedAt = None
    /\ p.Status \in {"CLOSED", "DECLINED"} => p.ClosedAt # None /\ p.MergedAt = None

C23_Bitbucket ==
    \A i \in 1..Len(Collected("bbPRs")) : StatusMatchesDates(Collected("bbPRs")[i])

C23_GitHub ==
    \A i \in 1..Len(Collected("ghPRs")) : StatusMatchesDates(Collected("ghPRs")[i])

\* C23: every PullRequest of Bitbucket FetchPRs and of GitHub FetchPRs has
\* MergedAt set and ClosedAt unset if its status is MERGED, and ClosedAt set
\* and MergedAt unset if its status is CLOSED or DECLINED.
C23_StatusMatchesDates == C23_Bitbucket /\ C23_GitHub

Statuses == {"OPEN", "MERGED", "CLOSED", "DECLINED"}

\* MergedPRs + ClosedPRs + OpenPRs = TotalPRs
CountsAddUp(m) == m.MergedPRs + m.ClosedPRs + m.OpenPRs = m.TotalPRs

\* C24 for GitHub: the status is one of the four, and CalculatePRMetrics
\* counts every returned request in one of the three counters.
C24_GitHub ==
    /\ \A i \in 1..Len(Collected("ghPRs")) : Collected("ghPRs")[i].Status \in Statuses
    /\ Finished("ghPRs") => CountsAddUp(CalculatePRMetrics(ret["ghPRs"].recs))

C24_Bitbucket ==
    /\ \A i \in 1..Len(Collected("bbPRs")) : Collected("bbPRs")[i].Status \in Statuses
    /\ Finished("bbPRs") => CountsAddUp(CalculatePRMetrics(ret["bbPRs"].recs))

\* C24: every PullRequest of either adapter has a status among OPEN, MERGED,
\* CLOSED and DECLINED whatever the provider sent, and CalculatePRMetrics over
\* an adapter's result gives MergedPRs + ClosedPRs + OpenPRs = TotalPRs.
C24_StatusNormalised == C24_Bitbucket /\ C24_GitHub

Decisions == {"APPROVED", "CHANGES_REQUESTED"}

\* the earliest submitted_at among the reviews with a decision, or None
EarliestDecision(reviews) ==
    LET ts == {reviews[j].submitted_at : j \in {k \in 1..Len(reviews) : reviews[k].state \in Decisions}}
    IN  IF ts = {} THEN None ELSE CHOOSE t \in ts : \A u \in ts : t <= u

\* C25 for GitHub: FirstReviewAt is the earliest decision among the reviews
\* the provider holds for the request, unset when there is none, and not
\* before CreatedAt.
C25_GitHub ==
    \A i \in 1..Len(Collected("ghPRs")) :
        LET p == Collected("ghPRs")[i]
            pr == provider.ghPRs[p.ID[2]]
        IN  /\ p.FirstReviewAt = EarliestDecision(pr.reviews)
            /\ p.FirstReviewAt # None => p.FirstReviewAt >= p.CreatedAt

\* C25 for Bitbucket, whose reviewers carry an approval and no timestamp:
\* FirstReviewAt is set exactly when a reviewer has approved, and is not
\* before CreatedAt.
C25_Bitbucket ==
    \A i \in 1..Len(Collected("bbPRs")) :
        LET p == Collected("bbPRs")[i]
            pr == provider.bbPRs[p.ID[2]]
        IN  /\ p.FirstReviewAt # None
               <=> \E j \in 1..Len(pr.reviewers) : pr.reviewers[j].approved
            /\ p.FirstReviewAt # None => p.FirstReviewAt >= p.CreatedAt

\* C25: FirstReviewAt of every PullRequest of an adapter is the earliest
\* timestamp among the request's reviews with a decision (approved or changes
\* requested) and is >= CreatedAt; it is unset exactly when the request has no
\* such review.
C25_FirstReviewEarliest == C25_GitHub /\ C25_Bitbucket

\* the page the provider holds at offset startAt
JiraPageAt(startAt) == OffsetPage(provider.jiraIssues, startAt)
FullPage(e) == ~Failed(e) /\ Len(JiraPageAt(e.arg)) = PageSize

\* C26: Jira FetchIssues requests the offsets 0, PageSize, 2 * PageSize, ...
\* in sequence; every request but the last was answered with a full page, so
\* none follows a short page; the fetch goes on after a full page and returns
\* without error exactly after a page shorter than PageSize, having made
\* total \div PageSize + 1 requests (one more, for an empty page, when the
\* total is a multiple of PageSize) and returning every issue once.
C26_JiraStopsAtShortPage ==
    LET log == Log("jiraIssues")
        n == Len(log)
        total == Len(provider.jiraIssues)
    IN  /\ \A k \in 1..n : log[k].arg = (k - 1) * PageSize
        /\ \A k \in 1..(n - 1) : FullPage(log[k])
        /\ src = "jiraIssues" /\ pc = "fetch" => \A k \in 1..n : FullPage(log[k])
        /\ Finished("jiraIssues") =>
              /\ n >= 1 /\ ~FullPage(log[n])
              /\ ret["jiraIssues"].err = NoErr <=> ~Failed(log[n])
              /\ ret["jiraIssues"].err = NoErr =>
                    /\ Len(JiraPageAt(log[n].arg)) < PageSize
                    /\ n = (total \div PageSize) + 1
                    /\ [i \in 1..Len(ret["jiraIssues"].recs) |-> ret["jiraIssues"].recs[i].Key]
                         = [i \in 1..total |-> provider.jiraIssues[i].key]

\* C26 witness: 2 * PageSize issues, three requests, the last one answered
\* with an empty page, every issue returned
C26_Witness ==
    /\ Finished("jiraIssues") /\ NoExchangeFailed("jiraIssues")
    /\ Len(provider.jiraIssues) = 2 * PageSize
    /\ Len(Log("jiraIssues")) = 3
    /\ JiraPageAt(Log("jiraIssues")[3].arg) = <<>>
    /\ Len(ret["jiraIssues"].recs) = 2 * PageSize

\* C26 witness: no issue at all, one request, an empty page
C26_WitnessEmpty ==
    /\ Finished("jiraIssues") /\ NoExchangeFailed("jiraIssues")
    /\ entry = "jiraIssues"
    /\ provider.jiraIssues = <<>>
    /\ Len(Log("jiraIssues")) = 1
    /\ ret["jiraIssues"].recs = <<>>

\* the listing requests of adapter s, in order
IsListing(e) == e.kind = "list"
ListLog(s) == SelectSeq(Log(s), IsListing)

\* the page a Bitbucket listing request was answered with
BBPageOf(s, e) == BitbucketPage(provider[s], e.arg)

\* whether a page of commits holds one dated before `since`
HasOlder(page) == \E i \in 1..Len(page.values) : BBCommitDate(page.values[i]) < since

\* the listing requests of a Bitbucket fetch begin at 0 and each later one
\* asks for the nextPageStart of the response before it, which was answered
\* and was not the last page
C27_Sequential ==
    \A s \in {"bbCommits", "bbPRs"} :
        LET log == ListLog(s)
        IN  /\ log # <<>> => log[1].arg = 0
            /\ \A k \in 1..(Len(log) - 1) :
                  /\ ~Failed(log[k])
                  /\ ~BBPageOf(s, log[k]).isLastPage
                  /\ s = "bbCommits" => ~HasOlder(BBPageOf(s, log[k]))
                  /\ log[k + 1].arg = BBPageOf(s, log[k]).nextPageStart

\* a Bitbucket fetch that has returned without error has seen the last page
\* or, for FetchCommits only, a commit before `since`; one that is about to
\* send a listing request has seen neither
C27_StopsOnLastPage ==
    \A s \in {"bbCommits", "bbPRs"} :
        LET log == ListLog(s)
            last == BBPageOf(s, log[Len(log)])
            stop == last.isLastPage \/ (s = "bbCommits" /\ HasOlder(last))
        IN  /\ Finished(s) /\ ret[s].err = NoErr => ~Failed(log[Len(log)]) /\ stop
            /\ Finished(s) /\ ret[s].err # NoErr => Failed(log[Len(log)])
            /\ src = s /\ pc = "fetch" /\ idx = 0 /\ log # <<>>
               => ~Failed(log[Len(log)]) /\ ~stop

\* C27: Bitbucket FetchCommits and FetchPRs paginate sequentially, each
\* listing request starting at the nextPageStart of the response before it;
\* FetchPRs returns only after the page with isLastPage, FetchCommits also at
\* the first commit before `since`; and against a provider whose pages reach
\* isLastPage every fetch comes to its end.
C27_BitbucketPagination ==
    /\ [](C27_Sequential /\ C27_StopsOnLastPage)
    /\ (pc = "fetch") ~> (pc = "done")

\* C27 witness: FetchPRs has returned after three listing requests at 0,
\* PageSize and 2 * PageSize, the third page being the last
C27_Witness ==
    /\ Finished("bbPRs") /\ ret["bbPRs"].err = NoErr
    /\ [k \in 1..Len(ListLog("bbPRs")) |-> ListLog("bbPRs")[k].arg] = <<0, PageSize, 2 * PageSize>>
    /\ Len(ret["bbPRs"].recs) > PageSize

\* C27 witness: FetchCommits has returned before the last page, at a commit
\* before `since` on the second page
C27_WitnessCommits ==
    /\ Finished("bbCommits") /\ ret["bbCommits"].err = NoErr
    /\ Len(ListLog("bbCommits")) = 2
    /\ ~BBPageOf("bbCommits", ListLog("bbCommits")[2]).isLastPage

\* C28: the list GitHub FetchCommits collects holds each commit hash at most
\* once, also when a commit is listed under several branches.
C28_GitHubHashesUnique ==
    \A i, j \in 1..Len(Collected("ghCommits")) :
        Collected("ghCommits")[i].Hash = Collected("ghCommits")[j].Hash => i = j

\* the sum of the values of a map
RECURSIVE SumOver(_, _)
SumOver(f, keys) ==
    IF keys = {} THEN 0
    ELSE LET k == CHOOSE x \in keys : TRUE IN f[k] + SumOver(f, keys \ {k})
MapTotal(m) == SumOver(m.entries, DOMAIN m.entries)

\* the keys of a map
Keys(m) == DOMAIN m.entries

\* C30: the per-key mappings partition the records: the values of
\* CommitsByAuthor and those of CommitsByWeekday each add up to TotalCommits,
\* those of PRsByAuthor to TotalPRs, those of StoriesByAssignee to
\* TotalStories, every record's key is a key of its mapping, and
\* CompletedStories <= TotalStories.
C30_MappingsPartition ==
    Calculated =>
        LET c == report.CommitMetrics
            p == report.PRMetrics
            j == report.JiraMetrics
        IN  /\ c.TotalCommits = Len(commits)
            /\ MapTotal(c.CommitsByAuthor) = c.TotalCommits
            /\ MapTotal(c.CommitsByWeekday) = c.TotalCommits
            /\ Keys(c.CommitsByAuthor) = {commits[i].Author : i \in 1..Len(commits)}
            /\ p.TotalPRs = Len(prs)
            /\ MapTotal(p.PRsByAuthor) = p.TotalPRs
            /\ Keys(p.PRsByAuthor) = {prs[i].Author : i \in 1..Len(prs)}
            /\ j.TotalStories = Len(stories)
            /\ MapTotal(j.StoriesByAssignee) = j.TotalStories
            /\ Keys(j.StoriesByAssignee) = {stories[i].Assignee : i \in 1..Len(stories)}
            /\ j.CompletedStories <= j.TotalStories

\* C30 witness: three commits of two authors on two weekdays
C30_Witness ==
    /\ Calculated
    /\ Len(commits) = 3
    /\ Cardinality(Keys(report.CommitMetrics.CommitsByAuthor)) = 2
    /\ Cardinality(Keys(report.CommitMetrics.CommitsByWeekday)) = 2
    /\ \E a \in Keys(report.CommitMetrics.CommitsByAuthor) :
          report.CommitMetrics.CommitsByAuthor.entries[a] = 2

\* C30 witness: three stories of two assignees, not all of them completed
C30_WitnessStories ==
    /\ Calculated
    /\ Len(stories) = 3
    /\ Cardinality(Keys(report.JiraMetrics.StoriesByAssignee)) = 2
    /\ report.JiraMetrics.CompletedStories \in 1..2

\* ----------------------------------------------------------- server claims
\* the local variables of request r's handler
LocalsOf(r) == IF r = rid THEN Locals ELSE parked[r]

\* whether the diff request for pull request id, if one was made, failed
DiffFailed(log, id) ==
    \E k \in 1..Len(log) : log[k].kind = "diff" /\ log[k].arg = id /\ Failed(log[k])

\* what GET /api/bitbucket/metrics answers when its handler runs alone and
\* the provider answers its requests as in log: the first request lists the
\* commits, the second the pull requests, the others fetch their diffs
AloneResponse(log, at) ==
    IF Failed(log[1]) THEN ErrorResponse("Error fetching commits")
    ELSE IF Failed(log[2]) THEN ErrorResponse("Error fetching PRs")
    ELSE MetricsResponse(
             [i \in 1..Len(provider.bbCommits) |-> BBCommit(provider.bbCommits[i])],
             [i \in 1..Len(provider.bbPRs) |->
                 BBPR(provider.bbPRs[i],
                      IF DiffFailed(log, provider.bbPRs[i].id) THEN 0
                      ELSE SumLines(provider.bbPRs[i].diff))],
             at)

C29_WitnessError ==
    /\ responses[1].status = StatusInternalServerError
    /\ responses[2].status = StatusOK
    /\ Len(LocalsOf(1).reqLog) = 2
    /\ Len(LocalsOf(2).reqLog) = 4
====
